---------------------------- MODULE Spec2Model ----------------------------
(***************************************************************************)
(* Model of the evaluation/scoring engine of McCoach                       *)
(* (src/lib/evaluation/metrics.ts), of the unit conversion it calls        *)
(* (src/lib/nutrition-calculator.ts) and of the evaluation run that        *)
(* produces EvaluationMetrics records (POST /api/evaluation/run).          *)
(*                                                                         *)
(* Numbers.  A JavaScript number is modelled as an extended rational       *)
(* <<n, d>> in lowest terms with d >= 0: d > 0 is the finite value n/d,    *)
(* <<1,0>> is Infinity, <<-1,0>> is -Infinity and <<0,0>> is NaN.          *)
(* Arithmetic is exact (no binary rounding); NaN and the infinities        *)
(* propagate as in IEEE 754.                                               *)
(*                                                                         *)
(* Strings.  A JavaScript string is modelled as a sequence of one-character*)
(* strings, so that toLowerCase, trim, replace, includes, endsWith and     *)
(* slice are computed character by character.                              *)
(***************************************************************************)
EXTENDS Integers, Sequences, FiniteSets, TLC

\* ------------------------------------------------------------------------
\* Bounds of the model
\* ------------------------------------------------------------------------
MaxNameLen == 3

MaxDetected == 2

MaxActual == 3

MaxBatch == 2

\* ------------------------------------------------------------------------
\* JavaScript numbers as extended rationals
\* ------------------------------------------------------------------------
Sign(n) == IF n > 0 THEN 1 ELSE IF n < 0 THEN -1 ELSE 0

AbsInt(n) == IF n < 0 THEN -n ELSE n

RECURSIVE GCD(_, _)
GCD(a, b) == IF b = 0 THEN a ELSE GCD(b, a % b)

Num(n, d) ==
  IF d = 0 THEN <<Sign(n), 0>>
  ELSE LET g == GCD(AbsInt(n), AbsInt(d))
       IN  <<(Sign(d) * n) \div g, AbsInt(d) \div g>>

NaN == <<0, 0>>

Zero == <<0, 1>>

One == <<1, 1>>

IsNaN(x) == x = NaN

IsFinite(x) == x[2] > 0

Neg(x) == <<-x[1], x[2]>>

\* a + b; the finite case works over the least common denominator
Add(a, b) ==
  IF a[2] = 0 /\ b[2] = 0
  THEN (IF a = b THEN a ELSE NaN)
  ELSE IF a[2] = 0 \/ b[2] = 0
       THEN Num(a[1] * b[2] + b[1] * a[2], 0)
       ELSE LET g == GCD(a[2], b[2])
            IN  Num(a[1] * (b[2] \div g) + b[1] * (a[2] \div g), (a[2] \div g) * b[2])

Sub(a, b) == Add(a, Neg(b))

\* a * b; the finite case cancels common factors before multiplying
Mul(a, b) ==
  IF a[2] = 0 \/ b[2] = 0 \/ a[1] = 0 \/ b[1] = 0
  THEN Num(a[1] * b[1], a[2] * b[2])
  ELSE LET g1 == GCD(AbsInt(a[1]), b[2])
           g2 == GCD(AbsInt(b[1]), a[2])
       IN  Num((a[1] \div g1) * (b[1] \div g2), (a[2] \div g2) * (b[2] \div g1))

Div(a, b) == Mul(a, IF b[1] < 0 THEN <<-b[2], -b[1]>> ELSE <<b[2], b[1]>>)

MathAbs(x) == <<AbsInt(x[1]), x[2]>>

\* a > b of JavaScript: false as soon as one side is NaN
Gt(a, b) == ~IsNaN(a) /\ ~IsNaN(b) /\ a # b /\ Sub(a, b)[1] > 0

Ge(a, b) == ~IsNaN(a) /\ ~IsNaN(b) /\ (a = b \/ Sub(a, b)[1] > 0)

\* Math.max(a, b): NaN as soon as one argument is NaN
MathMax(a, b) == IF IsNaN(a) \/ IsNaN(b) THEN NaN ELSE IF Gt(b, a) THEN b ELSE a

\* arr.reduce((a, b) => a + b, 0)
RECURSIVE SumSeq(_)
SumSeq(arr) == IF arr = <<>> THEN Zero ELSE Add(SumSeq(SubSeq(arr, 1, Len(arr) - 1)), arr[Len(arr)])

\* ------------------------------------------------------------------------
\* JavaScript strings as sequences of characters
\* ------------------------------------------------------------------------
UpperCase == <<"A","B","C","D","E","F","G","H","I","J","K","L","M",
               "N","O","P","Q","R","S","T","U","V","W","X","Y","Z">>

LowerCase == <<"a","b","c","d","e","f","g","h","i","j","k","l","m",
               "n","o","p","q","r","s","t","u","v","w","x","y","z">>

\* the characters matched by \s and stripped by trim() (ASCII part)
WhiteSpace == {" ", "\t", "\n", "\r", "\f"}

ToLowerChar(c) ==
  IF \E i \in 1..26 : UpperCase[i] = c
  THEN LowerCase[CHOOSE i \in 1..26 : UpperCase[i] = c]
  ELSE c

toLowerCase(str) == [i \in 1..Len(str) |-> ToLowerChar(str[i])]

RECURSIVE TrimStart(_)
TrimStart(str) ==
  IF str # <<>> /\ Head(str) \in WhiteSpace THEN TrimStart(Tail(str)) ELSE str

RECURSIVE TrimEnd(_)
TrimEnd(str) ==
  IF str # <<>> /\ str[Len(str)] \in WhiteSpace
  THEN TrimEnd(SubSeq(str, 1, Len(str) - 1))
  ELSE str

trim(str) == TrimEnd(TrimStart(str))

\* str.replace(/\s+/g, ' '): every maximal run of white space becomes one space
RECURSIVE ReplaceWhiteSpaceRuns(_)
ReplaceWhiteSpaceRuns(str) ==
  IF str = <<>> THEN <<>>
  ELSE IF Head(str) \in WhiteSpace
       THEN <<" ">> \o ReplaceWhiteSpaceRuns(TrimStart(Tail(str)))
       ELSE <<Head(str)>> \o ReplaceWhiteSpaceRuns(Tail(str))

\* str.includes(search)
includes(str, search) ==
  \E i \in 0..(Len(str) - Len(search)) : SubSeq(str, i + 1, i + Len(search)) = search

\* str.endsWith(suffix)
endsWith(str, suffix) ==
  /\ Len(suffix) <= Len(str)
  /\ SubSeq(str, Len(str) - Len(suffix) + 1, Len(str)) = suffix

\* ------------------------------------------------------------------------
\* nutrition-calculator.ts: SERVING_CONVERSIONS and convertToGrams
\* ------------------------------------------------------------------------
SERVING_CONVERSIONS ==
  { <<<<"c","u","p">>, Num(240, 1)>>,
    <<<<"f","l"," ","o","z">>, Num(30, 1)>>,
    <<<<"t","a","b","l","e","s","p","o","o","n">>, Num(15, 1)>>,
    <<<<"t","b","s","p">>, Num(15, 1)>>,
    <<<<"t","e","a","s","p","o","o","n">>, Num(5, 1)>>,
    <<<<"t","s","p">>, Num(5, 1)>>,
    <<<<"g">>, Num(1, 1)>>,
    <<<<"g","r","a","m">>, Num(1, 1)>>,
    <<<<"k","g">>, Num(1000, 1)>>,
    <<<<"k","i","l","o","g","r","a","m">>, Num(1000, 1)>>,
    <<<<"o","z">>, Num(2835, 100)>>,
    <<<<"o","u","n","c","e">>, Num(2835, 100)>>,
    <<<<"l","b">>, Num(45359, 100)>>,
    <<<<"p","o","u","n","d">>, Num(45359, 100)>>,
    <<<<"p","i","e","c","e">>, Num(100, 1)>>,
    <<<<"s","l","i","c","e">>, Num(30, 1)>>,
    <<<<"s","e","r","v","i","n","g">>, Num(100, 1)>>,
    <<<<"w","h","o","l","e">>, Num(150, 1)>>,
    <<<<"m","e","d","i","u","m">>, Num(120, 1)>>,
    <<<<"l","a","r","g","e">>, Num(180, 1)>>,
    <<<<"s","m","a","l","l">>, Num(80, 1)>> }

\* property names every object literal inherits from Object.prototype; their
\* values are functions or objects, never numbers
ObjectPrototypeKeys ==
  { <<"c","o","n","s","t","r","u","c","t","o","r">>,
    <<"_","_","p","r","o","t","o","_","_">>,
    <<"t","o","S","t","r","i","n","g">>,
    <<"v","a","l","u","e","O","f">>,
    <<"h","a","s","O","w","n","P","r","o","p","e","r","t","y">>,
    <<"i","s","P","r","o","t","o","t","y","p","e","O","f">>,
    <<"t","o","L","o","c","a","l","e","S","t","r","i","n","g">>,
    <<"p","r","o","p","e","r","t","y","I","s","E","n","u","m","e","r","a","b","l","e">> }

\* SERVING_CONVERSIONS[key]: an own number, an inherited object, or undefined
PropertyLookup(key) ==
  IF \E e \in SERVING_CONVERSIONS : e[1] = key
  THEN [kind |-> "number", v |-> (CHOOSE e \in SERVING_CONVERSIONS : e[1] = key)[2]]
  ELSE IF key \in ObjectPrototypeKeys
       THEN [kind |-> "object", v |-> NaN]
       ELSE [kind |-> "undefined", v |-> NaN]

\* if (x): a number is truthy unless 0 or NaN, an object always, undefined never
Truthy(x) ==
  \/ x.kind = "object"
  \/ x.kind = "number" /\ ~IsNaN(x.v) /\ x.v # Zero

\* quantity * x: an object or function operand converts to NaN
Times(quantity, x) == IF x.kind = "number" THEN Mul(quantity, x.v) ELSE NaN

\* lines 326-345 without the lookups of lines 328-332
convertToGramsDefaultOnly(quantity, unit) == Mul(quantity, Num(100, 1))

\* lines 326-345 without the singular retry of lines 335-341
convertToGramsNoSingular(quantity, unit) ==
  LET conversionFactor == PropertyLookup(trim(toLowerCase(unit)))
  IN  IF Truthy(conversionFactor) THEN Times(quantity, conversionFactor)
      ELSE Mul(quantity, Num(100, 1))

\* lines 326-345
convertToGrams(quantity, unit) ==
  LET normalizedUnit   == trim(toLowerCase(unit))
      conversionFactor == PropertyLookup(normalizedUnit)
      singular         == SubSeq(normalizedUnit, 1, Len(normalizedUnit) - 1)
      singularFactor   == PropertyLookup(singular)
  IN  IF Truthy(conversionFactor) THEN Times(quantity, conversionFactor)
      ELSE IF endsWith(normalizedUnit, <<"s">>) /\ Truthy(singularFactor)
           THEN Times(quantity, singularFactor)
           ELSE Mul(quantity, Num(100, 1))

\* ------------------------------------------------------------------------
\* metrics.ts: normalizeFood and foodsMatch
\* ------------------------------------------------------------------------
normalizeFood(name) == ReplaceWhiteSpaceRuns(trim(toLowerCase(name)))

foodsMatchSubstringOneWay(food1, food2) ==
  LET norm1 == normalizeFood(food1)
      norm2 == normalizeFood(food2)
  IN  norm1 = norm2 \/ includes(norm1, norm2)

foodsMatch(food1, food2) ==
  LET norm1 == normalizeFood(food1)
      norm2 == normalizeFood(food2)
  IN  IF norm1 = norm2 THEN TRUE
      ELSE IF includes(norm1, norm2) \/ includes(norm2, norm1) THEN TRUE
      ELSE FALSE

\* ------------------------------------------------------------------------
\* metrics.ts: calculateMetrics
\* ------------------------------------------------------------------------
\* how the emitted JavaScript binds a const: "es2015" keeps const (a read
\* before initialisation throws ReferenceError), "es5" emits var (a read
\* before initialisation gives undefined)
EmitTargets == {"es2015", "es5"}

\* line 64 without the matchedActual test
claimsActualIgnoringSet(matchedActual, index, detected, actual) ==
  foodsMatch(detected, actual)

\* line 64: the condition under which a detected name claims actual index
claimsActual(matchedActual, index, detected, actual) ==
  index \notin matchedActual /\ foodsMatch(detected, actual)

\* lines 63-68: actualFoods.forEach((actual, index) => ...) for one detected
\* name; claimed records the (detected position, actual index) pairs for
\* which lines 65-66 ran (indices are 1-based here, 0-based in the source)
RECURSIVE actualFoodsForEach(_, _, _, _, _)
actualFoodsForEach(detected, d, actualFoods, index, st) ==
  IF index > Len(actualFoods) THEN st
  ELSE actualFoodsForEach(detected, d, actualFoods, index + 1,
         IF claimsActual(st.matchedActual, index, detected, actualFoods[index])
         THEN [truePositives |-> st.truePositives + 1,
               matchedActual |-> st.matchedActual \cup {index},
               claimed       |-> st.claimed \cup {<<d, index>>}]
         ELSE st)

\* lines 62-69: detectedFoods.forEach((detected) => ...)
RECURSIVE detectedFoodsForEach(_, _, _, _)
detectedFoodsForEach(detectedFoods, actualFoods, d, st) ==
  IF d > Len(detectedFoods) THEN st
  ELSE detectedFoodsForEach(detectedFoods, actualFoods, d + 1,
         actualFoodsForEach(detectedFoods[d], d, actualFoods, 1, st))

\* line 76 with the arithmetic mean in place of the harmonic mean
f1ScoreArithmeticMean(precision, recall) ==
  IF Gt(Add(precision, recall), Zero)
  THEN Div(Add(precision, recall), Num(2, 1))
  ELSE Zero

\* line 76
f1ScoreOf(precision, recall) ==
  IF Gt(Add(precision, recall), Zero)
  THEN Div(Mul(Mul(Num(2, 1), precision), recall), Add(precision, recall))
  ELSE Zero

\* line 77 without the actualFoods.length > 0 guard
foodDetectionAccuracyUnguarded(truePositives, actualLength) ==
  Div(Num(truePositives, 1), Num(actualLength, 1))

\* line 77
foodDetectionAccuracyOf(truePositives, actualLength) ==
  IF actualLength > 0 THEN Div(Num(truePositives, 1), Num(actualLength, 1)) ELSE Zero

\* lines 83-85: groundTruth.foods.find(...): index of the first ground-truth
\* food whose name matches, 0 for undefined
RECURSIVE findFrom(_, _, _)
findFrom(gtFoods, name, j) ==
  IF j > Len(gtFoods) THEN 0
  ELSE IF foodsMatch(name, gtFoods[j].name) THEN j
       ELSE findFrom(gtFoods, name, j + 1)

findMatchingGT(gtFoods, name) == findFrom(gtFoods, name, 1)

\* lines 82-100: aiResult.foods.forEach((aiFood) => ...); convertToGrams does
\* not throw on string units, so the catch of lines 96-98 is never entered
RECURSIVE quantityErrorsForEach(_, _, _, _)
quantityErrorsForEach(aiFoods, gtFoods, i, quantityErrors) ==
  IF i > Len(aiFoods) THEN quantityErrors
  ELSE LET aiFood == aiFoods[i]
           m      == findMatchingGT(gtFoods, aiFood.name)
           aiGrams == convertToGrams(aiFood.quantity, aiFood.unit)
           gtGrams == convertToGrams(gtFoods[m].quantity, gtFoods[m].unit)
       IN  quantityErrorsForEach(aiFoods, gtFoods, i + 1,
             IF m # 0 /\ Gt(gtGrams, Zero)
             THEN Append(quantityErrors, Div(MathAbs(Sub(aiGrams, gtGrams)), gtGrams))
             ELSE quantityErrors)

\* lines 102-105
avgQuantityErrorOf(quantityErrors) ==
  IF Len(quantityErrors) > 0
  THEN Div(SumSeq(quantityErrors), Num(Len(quantityErrors), 1))
  ELSE One

\* the value of reading a const binding in its initialiser, before it is
\* initialised: ReferenceError under const, undefined under var
ReadUninitialised(target) ==
  IF target = "es2015" THEN [kind |-> "ReferenceError", v |-> NaN]
  ELSE [kind |-> "undefined", v |-> NaN]

\* lines 122-125
overallScoreOf(f1Score, quantityAccuracy, calorieAccuracy) ==
  Add(Add(Mul(f1Score, Num(4, 10)), Mul(quantityAccuracy, Num(3, 10))),
      Mul(calorieAccuracy, Num(3, 10)))

\* lines 71-140, after the two passes over the foods.  The result holds the
\* locals computed up to line 118, the outcome of line 119 and, when the
\* function returns, the returned record.
calculateMetricsScores(detectedFoods, actualFoods, pass, quantityErrors, target) ==
  LET truePositives  == pass.truePositives
      falsePositives == Len(detectedFoods) - truePositives
      falseNegatives == Len(actualFoods) - truePositives
      precision == IF truePositives > 0
                   THEN Div(Num(truePositives, 1), Num(truePositives + falsePositives, 1))
                   ELSE Zero
      recall    == IF truePositives > 0
                   THEN Div(Num(truePositives, 1), Num(truePositives + falseNegatives, 1))
                   ELSE Zero
      f1Score   == f1ScoreOf(precision, recall)
      foodDetectionAccuracy == foodDetectionAccuracyOf(truePositives, Len(actualFoods))
      avgQuantityError == avgQuantityErrorOf(quantityErrors)
      quantityAccuracy == MathMax(Zero, Sub(One, avgQuantityError))
      calorieError == Zero
      proteinError == Zero
      carbsError   == Zero
      fatError     == Zero
      calorieAccuracy == MathMax(Zero, Sub(One, calorieError))
      proteinAccuracy == MathMax(Zero, Sub(One, proteinError))
      carbsAccuracy   == MathMax(Zero, Sub(One, carbsError))
      \* line 119: const fatAccuracy = Math.max(0, 1 - fatAccuracy)
      ownValue    == ReadUninitialised(target)
      fatAccuracy == MathMax(Zero, Sub(One, ownValue.v))
      overallScore == overallScoreOf(f1Score, quantityAccuracy, calorieAccuracy)
      locals == [detectedFoods |-> detectedFoods, actualFoods |-> actualFoods,
                 truePositives |-> truePositives, matchedActual |-> pass.matchedActual,
                 claimed |-> pass.claimed,
                 falsePositives |-> falsePositives, falseNegatives |-> falseNegatives,
                 precision |-> precision, recall |-> recall, f1Score |-> f1Score,
                 foodDetectionAccuracy |-> foodDetectionAccuracy,
                 quantityErrors |-> quantityErrors,
                 avgQuantityError |-> avgQuantityError,
                 quantityAccuracy |-> quantityAccuracy,
                 fatError |-> fatError]
  IN  IF ownValue.kind = "ReferenceError"
      THEN [locals |-> locals, kind |-> "thrown", value |-> <<>>]
      ELSE [locals |-> locals, kind |-> "returned",
            value |-> [precision |-> precision, recall |-> recall, f1Score |-> f1Score,
                       foodDetectionAccuracy |-> foodDetectionAccuracy,
                       quantityAccuracy |-> quantityAccuracy,
                       avgQuantityError |-> avgQuantityError,
                       calorieAccuracy |-> calorieAccuracy,
                       proteinAccuracy |-> proteinAccuracy,
                       carbsAccuracy |-> carbsAccuracy,
                       fatAccuracy |-> fatAccuracy,
                       overallScore |-> overallScore]]

\* lines 37-140: the normalised names (55-56), the pass that counts the true
\* positives (58-69), the pass that collects the quantity errors (79-102) and
\* the scores
calculateMetrics(aiResult, groundTruth, target) ==
  LET detectedFoods == [i \in 1..Len(aiResult.foods) |-> normalizeFood(aiResult.foods[i].name)]
      actualFoods   == [j \in 1..Len(groundTruth.foods) |-> normalizeFood(groundTruth.foods[j].name)]
  IN  calculateMetricsScores(
        detectedFoods, actualFoods,
        detectedFoodsForEach(detectedFoods, actualFoods, 1,
          [truePositives |-> 0, matchedActual |-> {}, claimed |-> {}]),
        quantityErrorsForEach(aiResult.foods, groundTruth.foods, 1, <<>>),
        target)

\* ------------------------------------------------------------------------
\* metrics.ts: calculateNutritionAccuracy and aggregateMetrics
\* ------------------------------------------------------------------------
\* lines 145-180 with the fat error taken from the carbs total of the AI
calculateNutritionAccuracyFatFromCarbs(aiTotals, groundTruth) ==
  LET calorieError == IF Gt(groundTruth.totalCalories, Zero)
                      THEN Div(MathAbs(Sub(aiTotals.calories, groundTruth.totalCalories)),
                               groundTruth.totalCalories)
                      ELSE Zero
      proteinError == IF Gt(groundTruth.totalProtein, Zero)
                      THEN Div(MathAbs(Sub(aiTotals.protein, groundTruth.totalProtein)),
                               groundTruth.totalProtein)
                      ELSE Zero
      carbsError   == IF Gt(groundTruth.totalCarbs, Zero)
                      THEN Div(MathAbs(Sub(aiTotals.carbs, groundTruth.totalCarbs)),
                               groundTruth.totalCarbs)
                      ELSE Zero
      fatError     == IF Gt(groundTruth.totalFat, Zero)
                      THEN Div(MathAbs(Sub(aiTotals.carbs, groundTruth.totalFat)),
                               groundTruth.totalFat)
                      ELSE Zero
  IN  [calorieAccuracy |-> MathMax(Zero, Sub(One, calorieError)),
       proteinAccuracy |-> MathMax(Zero, Sub(One, proteinError)),
       carbsAccuracy   |-> MathMax(Zero, Sub(One, carbsError)),
       fatAccuracy     |-> MathMax(Zero, Sub(One, fatError))]

\* lines 145-180
calculateNutritionAccuracy(aiTotals, groundTruth) ==
  LET calorieError == IF Gt(groundTruth.totalCalories, Zero)
                      THEN Div(MathAbs(Sub(aiTotals.calories, groundTruth.totalCalories)),
                               groundTruth.totalCalories)
                      ELSE Zero
      proteinError == IF Gt(groundTruth.totalProtein, Zero)
                      THEN Div(MathAbs(Sub(aiTotals.protein, groundTruth.totalProtein)),
                               groundTruth.totalProtein)
                      ELSE Zero
      carbsError   == IF Gt(groundTruth.totalCarbs, Zero)
                      THEN Div(MathAbs(Sub(aiTotals.carbs, groundTruth.totalCarbs)),
                               groundTruth.totalCarbs)
                      ELSE Zero
      fatError     == IF Gt(groundTruth.totalFat, Zero)
                      THEN Div(MathAbs(Sub(aiTotals.fat, groundTruth.totalFat)),
                               groundTruth.totalFat)
                      ELSE Zero
  IN  [calorieAccuracy |-> MathMax(Zero, Sub(One, calorieError)),
       proteinAccuracy |-> MathMax(Zero, Sub(One, proteinError)),
       carbsAccuracy   |-> MathMax(Zero, Sub(One, carbsError)),
       fatAccuracy     |-> MathMax(Zero, Sub(One, fatError))]

\* line 186: arr.reduce((a, b) => a + b, 0) / arr.length
avg(arr) == Div(SumSeq(arr), Num(Len(arr), 1))

\* lines 185-201 with recall averaged from the precision column
aggregateMetricsRecallFromPrecision(results) ==
  [precision |-> avg([i \in 1..Len(results) |-> results[i].precision]),
   recall |-> avg([i \in 1..Len(results) |-> results[i].precision]),
   f1Score |-> avg([i \in 1..Len(results) |-> results[i].f1Score]),
   foodDetectionAccuracy |-> avg([i \in 1..Len(results) |-> results[i].foodDetectionAccuracy]),
   quantityAccuracy |-> avg([i \in 1..Len(results) |-> results[i].quantityAccuracy]),
   avgQuantityError |-> avg([i \in 1..Len(results) |-> results[i].avgQuantityError]),
   calorieAccuracy |-> avg([i \in 1..Len(results) |-> results[i].calorieAccuracy]),
   proteinAccuracy |-> avg([i \in 1..Len(results) |-> results[i].proteinAccuracy]),
   carbsAccuracy |-> avg([i \in 1..Len(results) |-> results[i].carbsAccuracy]),
   fatAccuracy |-> avg([i \in 1..Len(results) |-> results[i].fatAccuracy]),
   overallScore |-> avg([i \in 1..Len(results) |-> results[i].overallScore])]

\* lines 185-201
aggregateMetrics(results) ==
  [precision |-> avg([i \in 1..Len(results) |-> results[i].precision]),
   recall |-> avg([i \in 1..Len(results) |-> results[i].recall]),
   f1Score |-> avg([i \in 1..Len(results) |-> results[i].f1Score]),
   foodDetectionAccuracy |-> avg([i \in 1..Len(results) |-> results[i].foodDetectionAccuracy]),
   quantityAccuracy |-> avg([i \in 1..Len(results) |-> results[i].quantityAccuracy]),
   avgQuantityError |-> avg([i \in 1..Len(results) |-> results[i].avgQuantityError]),
   calorieAccuracy |-> avg([i \in 1..Len(results) |-> results[i].calorieAccuracy]),
   proteinAccuracy |-> avg([i \in 1..Len(results) |-> results[i].proteinAccuracy]),
   carbsAccuracy |-> avg([i \in 1..Len(results) |-> results[i].carbsAccuracy]),
   fatAccuracy |-> avg([i \in 1..Len(results) |-> results[i].fatAccuracy]),
   overallScore |-> avg([i \in 1..Len(results) |-> results[i].overallScore])]

\* ------------------------------------------------------------------------
\* Inputs of the calls
\* ------------------------------------------------------------------------
SeqsUpTo(S, n) == UNION {[1..k -> S] : k \in 0..n}

NameChars == {"a", "B", " ", "\t"}

Names == SeqsUpTo(NameChars, MaxNameLen)

chicken == <<"c","h","i","c","k","e","n">>

rice == <<"r","i","c","e">>

broccoli == <<"b","r","o","c","c","o","l","i">>

grilledChickenBreast ==
  <<"g","r","i","l","l","e","d"," ","c","h","i","c","k","e","n"," ","b","r","e","a","s","t">>

brownRice == <<"b","r","o","w","n"," ","r","i","c","e">>

brownRiceWithBroccoli ==
  <<"B","r","o","w","n"," ","R","i","c","e"," ","\t","w","i","t","h"," ",
    "b","r","o","c","c","o","l","i"," ">>

\* DetectedFood records (name, quantity, unit) of the vision collaborator
DetectedFoods ==
  { [name |-> chicken, quantity |-> Num(6, 1), unit |-> <<"o","z">>],
    [name |-> rice,    quantity |-> Num(3, 1), unit |-> <<"c","u","p">>],
    [name |-> brownRiceWithBroccoli, quantity |-> Num(2, 1),
     unit |-> <<"c","o","n","s","t","r","u","c","t","o","r">>] }

\* FoodGroundTruth records (name, quantity, unit)
GroundTruthFoods ==
  { [name |-> grilledChickenBreast, quantity |-> Num(150, 1), unit |-> <<"g">>],
    [name |-> brownRice, quantity |-> Num(1, 1), unit |-> <<"c","u","p">>],
    [name |-> broccoli,  quantity |-> Num(0, 1), unit |-> <<"c","u","p">>] }

AIResults == {[foods |-> fs] : fs \in SeqsUpTo(DetectedFoods, MaxDetected)}

GroundTruths ==
  {[foods |-> fs, totalCalories |-> Num(400, 1), totalProtein |-> Num(20, 1),
    totalCarbs |-> Num(50, 1), totalFat |-> Num(20, 1)] :
     fs \in SeqsUpTo(GroundTruthFoods, MaxActual)}

\* ------------------------------------------------------------------------
\* nutrition-calculator.ts: calculateNutritionForServing
\* ------------------------------------------------------------------------
Undefined == <<>>

\* truthiness of a number or undefined
TruthyNumber(x) == x # Undefined /\ ~IsNaN(x) /\ x # Zero

\* a || b
OrElse(a, b) == IF TruthyNumber(a) THEN a ELSE b

\* lines 231-246
calculateNutritionForServing(foodItem, serving) ==
  LET scaleFactor == Div(serving.grams, Num(100, 1))
  IN  [calories |-> Mul(foodItem.calories, scaleFactor),
       protein  |-> Mul(foodItem.protein, scaleFactor),
       carbs    |-> Mul(foodItem.carbs, scaleFactor),
       fat      |-> Mul(foodItem.fat, scaleFactor),
       fiber    |-> IF TruthyNumber(foodItem.fiber) THEN Mul(foodItem.fiber, scaleFactor) ELSE Undefined,
       sugar    |-> IF TruthyNumber(foodItem.sugar) THEN Mul(foodItem.sugar, scaleFactor) ELSE Undefined,
       sodium   |-> IF TruthyNumber(foodItem.sodium) THEN Mul(foodItem.sodium, scaleFactor) ELSE Undefined]

\* Math.round: the nearest integer, halves towards +Infinity
MathRound(x) == IF x[2] = 0 THEN x ELSE Num((2 * x[1] + x[2]) \div (2 * x[2]), 1)

\* Math.round(x * 10) / 10
RoundToOneDecimal(x) == Div(MathRound(Mul(x, Num(10, 1))), Num(10, 1))

\* lines 267-275 and 395-403: the initial value of the reduce
InitialTotals ==
  [calories |-> Zero, protein |-> Zero, carbs |-> Zero, fat |-> Zero,
   fiber |-> Zero, sugar |-> Zero, sodium |-> Zero]

\* lines 253-276: items.reduce from item i on
RECURSIVE calculateTotalNutritionReduce(_, _, _)
calculateTotalNutritionReduce(items, i, acc) ==
  IF i > Len(items) THEN acc
  ELSE LET nutrition == calculateNutritionForServing(items[i], items[i].serving)
       IN  calculateTotalNutritionReduce(items, i + 1,
             [calories |-> Add(acc.calories, nutrition.calories),
              protein  |-> Add(acc.protein, nutrition.protein),
              carbs    |-> Add(acc.carbs, nutrition.carbs),
              fat      |-> Add(acc.fat, nutrition.fat),
              fiber    |-> Add(OrElse(acc.fiber, Zero), OrElse(nutrition.fiber, Zero)),
              sugar    |-> Add(OrElse(acc.sugar, Zero), OrElse(nutrition.sugar, Zero)),
              sodium   |-> Add(OrElse(acc.sodium, Zero), OrElse(nutrition.sodium, Zero))])

\* lines 278-286: the returned profile
calculateTotalNutritionReturn(totals) ==
  [calories |-> MathRound(totals.calories),
   protein  |-> RoundToOneDecimal(totals.protein),
   carbs    |-> RoundToOneDecimal(totals.carbs),
   fat      |-> RoundToOneDecimal(totals.fat),
   fiber    |-> IF Gt(totals.fiber, Zero) THEN RoundToOneDecimal(totals.fiber) ELSE Undefined,
   sugar    |-> IF Gt(totals.sugar, Zero) THEN RoundToOneDecimal(totals.sugar) ELSE Undefined,
   sodium   |-> IF Gt(totals.sodium, Zero) THEN MathRound(totals.sodium) ELSE Undefined]

\* lines 252-287
calculateTotalNutrition(items) ==
  calculateTotalNutritionReturn(calculateTotalNutritionReduce(items, 1, InitialTotals))

\* lines 385-404: meals.reduce from meal i on
RECURSIVE calculateDailyTotalsReduce(_, _, _)
calculateDailyTotalsReduce(meals, i, acc) ==
  IF i > Len(meals) THEN acc
  ELSE LET meal == meals[i]
       IN  calculateDailyTotalsReduce(meals, i + 1,
             [calories |-> Add(acc.calories, meal.calories),
              protein  |-> Add(acc.protein, meal.protein),
              carbs    |-> Add(acc.carbs, meal.carbs),
              fat      |-> Add(acc.fat, meal.fat),
              fiber    |-> Add(OrElse(acc.fiber, Zero), OrElse(meal.fiber, Zero)),
              sugar    |-> Add(OrElse(acc.sugar, Zero), OrElse(meal.sugar, Zero)),
              sodium   |-> Add(OrElse(acc.sodium, Zero), OrElse(meal.sodium, Zero))])

\* lines 406-414: the returned profile
calculateDailyTotalsReturn(totals) ==
  [calories |-> MathRound(totals.calories),
   protein  |-> RoundToOneDecimal(totals.protein),
   carbs    |-> RoundToOneDecimal(totals.carbs),
   fat      |-> RoundToOneDecimal(totals.fat),
   fiber    |-> IF Gt(totals.fiber, Zero) THEN RoundToOneDecimal(totals.fiber) ELSE Undefined,
   sugar    |-> IF Gt(totals.sugar, Zero) THEN RoundToOneDecimal(totals.sugar) ELSE Undefined,
   sodium   |-> IF Gt(totals.sodium, Zero) THEN MathRound(totals.sodium) ELSE Undefined]

\* lines 384-415 with the sodium total rounded to one decimal place
calculateDailyTotalsSodiumToOneDecimal(meals) ==
  LET totals == calculateDailyTotalsReduce(meals, 1, InitialTotals)
  IN  [calculateDailyTotalsReturn(totals) EXCEPT
         !.sodium = IF Gt(totals.sodium, Zero) THEN RoundToOneDecimal(totals.sodium)
                    ELSE Undefined]

\* lines 384-415
calculateDailyTotals(meals) ==
  calculateDailyTotalsReturn(calculateDailyTotalsReduce(meals, 1, InitialTotals))

\* lines 421-437
calculateMacroPercentages(nutrition) ==
  LET totalCalories   == OrElse(nutrition.calories, One)
      proteinCalories == Mul(nutrition.protein, Num(4, 1))
      carbsCalories   == Mul(nutrition.carbs, Num(4, 1))
      fatCalories     == Mul(nutrition.fat, Num(9, 1))
  IN  [proteinPercent |-> MathRound(Mul(Div(proteinCalories, totalCalories), Num(100, 1))),
       carbsPercent   |-> MathRound(Mul(Div(carbsCalories, totalCalories), Num(100, 1))),
       fatPercent     |-> MathRound(Mul(Div(fatCalories, totalCalories), Num(100, 1)))]

\* lines 351-378 with the test for 'slice' (360-362) after the test for 'cup'
estimateGramsFromDescriptionCupFirst(description, quantity) ==
  LET lowerDesc == toLowerCase(description)
      has(word) == includes(lowerDesc, word)
  IN  IF has(<<"w","h","o","l","e">>) \/ has(<<"e","n","t","i","r","e">>)
      THEN Mul(quantity, Num(150, 1))
      ELSE IF has(<<"p","i","e","c","e">>) \/ has(<<"c","h","u","n","k">>)
      THEN Mul(quantity, Num(100, 1))
      ELSE IF has(<<"c","u","p">>) THEN Mul(quantity, Num(240, 1))
      ELSE IF has(<<"s","l","i","c","e">>) THEN Mul(quantity, Num(30, 1))
      ELSE IF has(<<"t","a","b","l","e","s","p","o","o","n">>) \/ has(<<"t","b","s","p">>)
      THEN Mul(quantity, Num(15, 1))
      ELSE IF has(<<"t","e","a","s","p","o","o","n">>) \/ has(<<"t","s","p">>)
      THEN Mul(quantity, Num(5, 1))
      ELSE Mul(quantity, Num(100, 1))

\* lines 351-378
estimateGramsFromDescription(description, quantity) ==
  LET lowerDesc == toLowerCase(description)
      has(word) == includes(lowerDesc, word)
  IN  IF has(<<"w","h","o","l","e">>) \/ has(<<"e","n","t","i","r","e">>)
      THEN Mul(quantity, Num(150, 1))
      ELSE IF has(<<"s","l","i","c","e">>) THEN Mul(quantity, Num(30, 1))
      ELSE IF has(<<"p","i","e","c","e">>) \/ has(<<"c","h","u","n","k">>)
      THEN Mul(quantity, Num(100, 1))
      ELSE IF has(<<"c","u","p">>) THEN Mul(quantity, Num(240, 1))
      ELSE IF has(<<"t","a","b","l","e","s","p","o","o","n">>) \/ has(<<"t","b","s","p">>)
      THEN Mul(quantity, Num(15, 1))
      ELSE IF has(<<"t","e","a","s","p","o","o","n">>) \/ has(<<"t","s","p">>)
      THEN Mul(quantity, Num(5, 1))
      ELSE Mul(quantity, Num(100, 1))

\* ------------------------------------------------------------------------
\* POST /api/evaluation/run: helpers
\* ------------------------------------------------------------------------
\* findMany({ take: 20 })
TakeLimit == 20

Null == [null |-> TRUE]

IsNull(x) == "null" \in DOMAIN x

\* lines 124-136: the metrics of an item whose evaluation threw
ErrorMetrics ==
  [precision |-> Zero, recall |-> Zero, f1Score |-> Zero,
   foodDetectionAccuracy |-> Zero, quantityAccuracy |-> Zero,
   avgQuantityError |-> One, calorieAccuracy |-> Zero, proteinAccuracy |-> Zero,
   carbsAccuracy |-> Zero, fatAccuracy |-> Zero, overallScore |-> Zero]

\* lines 119-139: the result pushed by the catch of one item
ErrorResult(item, message) ==
  [imageUrl |-> item.imageUrl, aiResult |-> Null, groundTruth |-> item.groundTruth,
   metrics |-> ErrorMetrics, errors |-> <<message>>]

\* line 101 without the recalculation of lines 104-107
mergeNutritionAccuracyOnly(metrics, nutritionAccuracy) ==
  [f \in DOMAIN metrics |->
     IF f \in DOMAIN nutritionAccuracy THEN nutritionAccuracy[f] ELSE metrics[f]]

\* lines 101-107: metrics = { ...metrics, ...nutritionAccuracy } and the
\* recalculation of overallScore
mergeNutritionAccuracy(metrics, nutritionAccuracy) ==
  LET merged == [f \in DOMAIN metrics |->
                   IF f \in DOMAIN nutritionAccuracy THEN nutritionAccuracy[f] ELSE metrics[f]]
  IN  [merged EXCEPT !.overallScore =
         Add(Add(Mul(merged.f1Score, Num(4, 10)), Mul(merged.quantityAccuracy, Num(3, 10))),
             Mul(merged.calorieAccuracy, Num(3, 10)))]

\* lines 96-139: the result of one item once its lookups have settled
ItemResult(item, analysis, totals, foods, called) ==
      IF called.kind = "thrown"
      THEN ErrorResult(item, "ReferenceError")
      ELSE [imageUrl |-> item.imageUrl,
            aiResult |-> [foods |-> foods, confidence |-> analysis.confidence,
                          totals |-> totals],
            groundTruth |-> item.groundTruth,
            metrics |-> mergeNutritionAccuracy(called.value,
                          calculateNutritionAccuracy(totals, item.groundTruth)),
            errors |-> <<>>]

\* line 143: results.filter((r) => r.metrics.overallScore > 0)
validResultsOf(results) == SelectSeq(results, LAMBDA r : Gt(r.metrics.overallScore, Zero))

\* lines 146-150
averageConfidenceOf(validResults) ==
  Div(SumSeq([i \in 1..Len(validResults) |->
                IF IsNull(validResults[i].aiResult) THEN Zero
                ELSE OrElse(validResults[i].aiResult.confidence, Zero)]),
      Num(IF Len(validResults) > 1 THEN Len(validResults) ELSE 1, 1))

\* ------------------------------------------------------------------------
\* Inputs of an evaluation run
\* ------------------------------------------------------------------------
MaxItems == 2

RunGroundTruths ==
  { [foods |-> <<[name |-> brownRice, quantity |-> Num(1, 1), unit |-> <<"c","u","p">>]>>,
     totalCalories |-> Num(400, 1), totalProtein |-> Num(20, 1),
     totalCarbs |-> Num(50, 1), totalFat |-> Num(20, 1)],
    [foods |-> <<[name |-> grilledChickenBreast, quantity |-> Num(150, 1), unit |-> <<"g">>],
                 [name |-> broccoli, quantity |-> Num(1, 1), unit |-> <<"z","o","r","b">>]>>,
     totalCalories |-> Num(500, 1), totalProtein |-> Num(50, 1),
     totalCarbs |-> Num(20, 1), totalFat |-> Num(0, 1)] }

\* a groundTruth column whose text is not JSON: JSON.parse throws a SyntaxError
Unparseable == [syntaxError |-> TRUE]

\* JSON.parse(item.groundTruth) throws
JSONParseThrows(text) == "syntaxError" \in DOMAIN text

\* rows of the BenchmarkItem table; the groundTruth column is free text, shown
\* as the value JSON.parse gives for it
BenchmarkRows ==
  {[imageUrl |-> u, groundTruth |-> gt] :
     u \in {"img"}, gt \in RunGroundTruths \cup {Unparseable}}

\* results of analyzeMealImage: validated foods and the overall confidence
AnalysisResults ==
  { [foods |-> <<[name |-> rice, quantity |-> Num(1, 1), unit |-> <<"c","u","p">>]>>,
     confidence |-> Num(9, 10)],
    [foods |-> <<[name |-> chicken, quantity |-> Num(6, 1), unit |-> <<"o","z">>],
                 [name |-> broccoli, quantity |-> Num(2, 1), unit |-> <<"p","i","e","c","e">>]>>,
     confidence |-> Num(1, 2)] }

\* per-100g nutrition of the first food of a search result
SearchNutrition ==
  { [calories |-> Num(130, 1), protein |-> Num(3, 1), carbs |-> Num(28, 1),
     fat |-> Num(0, 1), fiber |-> Undefined, sugar |-> Num(0, 1), sodium |-> Num(1, 1)] }

\* outcomes of searchAndCacheFoods(food.name, 1)
SearchOutcomes ==
  {[kind |-> "throws"], [kind |-> "empty"]} \cup
  {[kind |-> "found", nutrition |-> n] : n \in SearchNutrition}

\* ------------------------------------------------------------------------
\* Inputs of the calls of metrics.ts
\* ------------------------------------------------------------------------
foodsMatchArgs == {[food1 |-> food1, food2 |-> food2] : food1 \in Names, food2 \in Names}

calculateMetricsArgs ==
  {[aiResult |-> aiResult, groundTruth |-> groundTruth] :
     aiResult \in AIResults, groundTruth \in GroundTruths}

CalorieValues == {Num(0, 1), Num(400, 1), Num(500, 1), Num(1000, 1)}

GramValues == {Num(0, 1), Num(20, 1), Num(50, 1)}

calculateNutritionAccuracyArgs ==
  {[aiTotals |-> [calories |-> ac, protein |-> ap, carbs |-> ab, fat |-> af],
    groundTruth |-> [foods |-> <<>>, totalCalories |-> gc, totalProtein |-> gp,
                     totalCarbs |-> gb, totalFat |-> gf]] :
     ac \in CalorieValues, gc \in CalorieValues,
     ap \in GramValues, gp \in GramValues,
     ab \in GramValues, gb \in GramValues,
     af \in GramValues, gf \in GramValues}

MetricsRecords ==
  { [precision |-> Zero, recall |-> Zero, f1Score |-> Zero,
     foodDetectionAccuracy |-> Zero, quantityAccuracy |-> Zero,
     avgQuantityError |-> One, calorieAccuracy |-> Zero, proteinAccuracy |-> Zero,
     carbsAccuracy |-> Zero, fatAccuracy |-> Zero, overallScore |-> Zero],
    [precision |-> One, recall |-> One, f1Score |-> One,
     foodDetectionAccuracy |-> One, quantityAccuracy |-> One,
     avgQuantityError |-> Zero, calorieAccuracy |-> One, proteinAccuracy |-> One,
     carbsAccuracy |-> One, fatAccuracy |-> One, overallScore |-> One],
    [precision |-> Num(1, 2), recall |-> Num(1, 3), f1Score |-> Num(2, 5),
     foodDetectionAccuracy |-> Num(1, 4), quantityAccuracy |-> Num(7, 10),
     avgQuantityError |-> Num(3, 10), calorieAccuracy |-> Num(3, 4),
     proteinAccuracy |-> Num(1, 5), carbsAccuracy |-> Num(3, 5),
     fatAccuracy |-> Num(9, 10), overallScore |-> Num(119, 200)] }

aggregateMetricsArgs == {[results |-> rs] : rs \in SeqsUpTo(MetricsRecords, MaxBatch)}

\* ------------------------------------------------------------------------
\* State
\* ------------------------------------------------------------------------
VARIABLES
  target,             \* how const is emitted
  op, args, pc, ret,  \* one call of a function of metrics.ts and its outcome
  database,           \* rows of the BenchmarkItem table
  runPc,              \* position of the POST handler
  benchmarkItems,     \* rows fetched by findMany
  itemIndex,          \* position of the for loop of line 44
  aiAnalysis,         \* result of analyzeMealImage for the current item
  aiTotals,           \* totals accumulated by the lookup callbacks
  pending,            \* foods whose callback awaits searchAndCacheFoods
  foodsWithNutrition, \* results of the settled callbacks
  returnedMetrics,    \* records returned by calculateMetrics at line 97
  results,            \* results of the items evaluated so far
  evaluationRuns,     \* rows of the EvaluationRun table
  response,           \* response of the handler
  request,            \* input of a handler of the meal routes or of the calls of usda-client.ts
  handlerPc,          \* position of that handler
  tasks,              \* the concurrent callbacks or calls: position and locals of each
  tables,             \* committed rows of the Meal, FoodItem and MealFoodItem tables
  tx,                 \* the interactive transaction: its state and the rows it sees
  reply               \* response of that handler

callVars == <<op, args, pc, ret>>

runVars == <<database, runPc, benchmarkItems, itemIndex, aiAnalysis, aiTotals, pending,
             foodsWithNutrition, returnedMetrics, results, evaluationRuns, response>>

serviceVars == <<request, handlerPc, tasks, tables, tx, reply>>

vars == <<target, callVars, runVars, serviceVars>>

ZeroTotals == [calories |-> Zero, protein |-> Zero, carbs |-> Zero, fat |-> Zero]

NoRun ==
  /\ database = <<>>
  /\ runPc = "none"
  /\ benchmarkItems = <<>>
  /\ itemIndex = 0
  /\ aiAnalysis = Null
  /\ aiTotals = ZeroTotals
  /\ pending = {}
  /\ foodsWithNutrition = <<>>
  /\ returnedMetrics = <<>>
  /\ results = <<>>
  /\ evaluationRuns = <<>>
  /\ response = Null

EmptyTables == [Meal |-> {}, FoodItem |-> {}, MealFoodItem |-> {}]

NoTransaction == [state |-> "none", tables |-> EmptyTables]

NoService ==
  /\ request = <<>>
  /\ handlerPc = "none"
  /\ tasks = <<>>
  /\ tables = EmptyTables
  /\ tx = NoTransaction
  /\ reply = <<>>

\* ------------------------------------------------------------------------
\* The calls of metrics.ts: Init draws the function and its arguments, the
\* action of the function computes the outcome
\* ------------------------------------------------------------------------
Init ==
  /\ target \in EmitTargets
  /\ pc = "call"
  /\ ret = <<>>
  /\ \/ op = "foodsMatch" /\ args \in foodsMatchArgs
     \/ op = "calculateMetrics" /\ args \in calculateMetricsArgs
     \/ op = "calculateNutritionAccuracy" /\ args \in calculateNutritionAccuracyArgs
     \/ op = "aggregateMetrics" /\ args \in aggregateMetricsArgs
  /\ NoRun
  /\ NoService

foodsMatchCall ==
  /\ pc = "call" /\ op = "foodsMatch"
  /\ ret' = foodsMatch(args.food1, args.food2)
  /\ pc' = "done"
  /\ UNCHANGED <<target, serviceVars, op, args, runVars>>

calculateMetricsCall ==
  /\ pc = "call" /\ op = "calculateMetrics"
  /\ ret' = calculateMetrics(args.aiResult, args.groundTruth, target)
  /\ pc' = "done"
  /\ UNCHANGED <<target, serviceVars, op, args, runVars>>

calculateNutritionAccuracyCall ==
  /\ pc = "call" /\ op = "calculateNutritionAccuracy"
  /\ ret' = calculateNutritionAccuracy(args.aiTotals, args.groundTruth)
  /\ pc' = "done"
  /\ UNCHANGED <<target, serviceVars, op, args, runVars>>

aggregateMetricsCall ==
  /\ pc = "call" /\ op = "aggregateMetrics"
  /\ ret' = aggregateMetrics(args.results)
  /\ pc' = "done"
  /\ UNCHANGED <<target, serviceVars, op, args, runVars>>

Next ==
  \/ foodsMatchCall
  \/ calculateMetricsCall
  \/ calculateNutritionAccuracyCall
  \/ aggregateMetricsCall

Spec == Init /\ [][Next]_vars

\* ------------------------------------------------------------------------
\* POST /api/evaluation/run
\* ------------------------------------------------------------------------
InitRun ==
  /\ target \in EmitTargets
  /\ op = "none" /\ args = <<>> /\ pc = "none" /\ ret = <<>>
  /\ database \in SeqsUpTo(BenchmarkRows, MaxItems)
  /\ runPc = "request"
  /\ benchmarkItems = <<>>
  /\ itemIndex = 0
  /\ aiAnalysis = Null
  /\ aiTotals = ZeroTotals
  /\ pending = {}
  /\ foodsWithNutrition = <<>>
  /\ returnedMetrics = <<>>
  /\ results = <<>>
  /\ evaluationRuns = <<>>
  /\ response = Null
  /\ NoService

\* the loop of line 44 moves to the next item, or to line 142 after the last
AfterItem ==
  IF itemIndex < Len(benchmarkItems)
  THEN itemIndex' = itemIndex + 1 /\ runPc' = "item"
  ELSE itemIndex' = itemIndex /\ runPc' = "aggregate"

\* lines 20-39: the rows are fetched; an empty list is answered with 400
FetchBenchmarkItems ==
  /\ runPc = "request"
  /\ \E ids \in SUBSET (1..Len(database)) :
       LET rows == IF ids # {}
                   THEN SelectSeq([i \in 1..Len(database) |-> [row |-> database[i], id |-> i]],
                                  LAMBDA r : r.id \in ids)
                   ELSE SubSeq([i \in 1..Len(database) |-> [row |-> database[i], id |-> i]],
                               1, IF Len(database) < TakeLimit THEN Len(database) ELSE TakeLimit)
       IN  /\ benchmarkItems' = [i \in 1..Len(rows) |-> rows[i].row]
           /\ IF Len(rows) = 0
              THEN /\ response' = [status |-> 400, success |-> FALSE]
                   /\ runPc' = "responded"
                   /\ itemIndex' = 0
              ELSE /\ response' = response
                   /\ runPc' = "item"
                   /\ itemIndex' = 1
  /\ UNCHANGED <<target, serviceVars, callVars, database, aiAnalysis, aiTotals, pending,
                 foodsWithNutrition, returnedMetrics, results, evaluationRuns>>

\* lines 46, 119-123 and 176-178: JSON.parse throws at line 46; the catch of
\* the item parses the same text again at line 123, which throws out of the
\* loop into the catch of the handler, and the handler answers 500
GroundTruthParseThrows ==
  /\ runPc = "item"
  /\ JSONParseThrows(benchmarkItems[itemIndex].groundTruth)
  /\ response' = [status |-> 500, success |-> FALSE]
  /\ runPc' = "responded"
  /\ UNCHANGED <<target, serviceVars, callVars, database, benchmarkItems, itemIndex, aiAnalysis, aiTotals,
                 pending, foodsWithNutrition, returnedMetrics, results, evaluationRuns>>

\* lines 45-51 and 119-139: analyzeMealImage throws and the catch pushes the
\* zeroed record
AnalyzeThrows ==
  /\ runPc = "item"
  /\ ~JSONParseThrows(benchmarkItems[itemIndex].groundTruth)
  /\ results' = Append(results, ErrorResult(benchmarkItems[itemIndex],
                                            "Failed to analyze meal image"))
  /\ AfterItem
  /\ UNCHANGED <<target, serviceVars, callVars, database, benchmarkItems, aiAnalysis, aiTotals, pending,
                 foodsWithNutrition, returnedMetrics, evaluationRuns, response>>

\* lines 45-65: analyzeMealImage returns; every callback of the map runs up
\* to its await of searchAndCacheFoods
AnalyzeReturns ==
  /\ runPc = "item"
  /\ ~JSONParseThrows(benchmarkItems[itemIndex].groundTruth)
  /\ \E analysis \in AnalysisResults :
       /\ aiAnalysis' = analysis
       /\ pending' = 1..Len(analysis.foods)
       /\ foodsWithNutrition' = [i \in 1..Len(analysis.foods) |-> Null]
  /\ aiTotals' = ZeroTotals
  /\ runPc' = "lookups"
  /\ UNCHANGED <<target, serviceVars, callVars, database, benchmarkItems, itemIndex,
                 returnedMetrics, results, evaluationRuns, response>>

\* lines 82-85 with = in place of +=
addToTotalsOverwriting(totals, nutrition) ==
  [calories |-> nutrition.calories, protein |-> nutrition.protein,
   carbs |-> nutrition.carbs, fat |-> nutrition.fat]

\* lines 82-85: aiTotals.calories += nutrition.calories, ...; no await lies
\* between the read and the write of a field
addToTotals(totals, nutrition) ==
  [calories |-> Add(totals.calories, nutrition.calories),
   protein  |-> Add(totals.protein, nutrition.protein),
   carbs    |-> Add(totals.carbs, nutrition.carbs),
   fat      |-> Add(totals.fat, nutrition.fat)]

\* lines 64-92: the callback of food i resumes with the outcome of its search
LookupSettles(i) ==
  /\ runPc = "lookups"
  /\ i \in pending
  /\ \E outcome \in SearchOutcomes :
       LET food  == aiAnalysis.foods[i]
           grams == convertToGrams(food.quantity, food.unit)
           usda  == outcome.nutrition
           nutrition == calculateNutritionForServing(
                          [calories |-> usda.calories, protein |-> usda.protein,
                           carbs |-> usda.carbs, fat |-> usda.fat,
                           fiber |-> OrElse(usda.fiber, Zero),
                           sugar |-> OrElse(usda.sugar, Zero),
                           sodium |-> OrElse(usda.sodium, Zero)],
                          [quantity |-> food.quantity, unit |-> food.unit, grams |-> grams])
       IN  IF outcome.kind = "found"
           THEN /\ aiTotals' = addToTotals(aiTotals, nutrition)
                /\ foodsWithNutrition' = [foodsWithNutrition EXCEPT ![i] = nutrition]
           ELSE /\ aiTotals' = aiTotals
                /\ foodsWithNutrition' = foodsWithNutrition
  /\ pending' = pending \ {i}
  /\ UNCHANGED <<target, serviceVars, callVars, database, runPc, benchmarkItems, itemIndex, aiAnalysis,
                 returnedMetrics, results, evaluationRuns, response>>

\* lines 96-139: every callback has settled; calculateMetrics is called and
\* the result of the item, or the zeroed record of the catch, is pushed
ScoreItem ==
  /\ runPc = "lookups"
  /\ pending = {}
  /\ LET called == calculateMetrics(aiAnalysis, benchmarkItems[itemIndex].groundTruth, target)
     IN  /\ returnedMetrics' = IF called.kind = "returned"
                               THEN Append(returnedMetrics, called.value)
                               ELSE returnedMetrics
         /\ results' = Append(results, ItemResult(benchmarkItems[itemIndex], aiAnalysis,
                                                  aiTotals, foodsWithNutrition, called))
  /\ AfterItem
  /\ UNCHANGED <<target, serviceVars, callVars, database, benchmarkItems, aiAnalysis, aiTotals, pending,
                 foodsWithNutrition, evaluationRuns, response>>

\* lines 142-175: the metrics of the valid results are aggregated, the run is
\* stored and returned
AggregateAndStore ==
  /\ runPc = "aggregate"
  /\ LET validResults == validResultsOf(results)
         aggregated   == aggregateMetrics([i \in 1..Len(validResults) |-> validResults[i].metrics])
         summary      == [aggregated |-> aggregated, totalItems |-> Len(results),
                          averageConfidence |-> averageConfidenceOf(validResults)]
     IN  /\ evaluationRuns' = Append(evaluationRuns, [metrics |-> summary, results |-> results])
         /\ response' = [status |-> 200, success |-> TRUE, aggregated |-> summary,
                         results |-> results]
  /\ runPc' = "responded"
  /\ UNCHANGED <<target, serviceVars, callVars, database, benchmarkItems, itemIndex, aiAnalysis, aiTotals,
                 pending, foodsWithNutrition, returnedMetrics, results>>

\* lines 153-165 and 176-178: storing the run fails and the handler answers 500
StoreFails ==
  /\ runPc = "aggregate"
  /\ response' = [status |-> 500, success |-> FALSE]
  /\ runPc' = "responded"
  /\ UNCHANGED <<target, serviceVars, callVars, database, benchmarkItems, itemIndex, aiAnalysis, aiTotals,
                 pending, foodsWithNutrition, returnedMetrics, results, evaluationRuns>>

NextRun ==
  \/ FetchBenchmarkItems
  \/ GroundTruthParseThrows
  \/ AnalyzeThrows
  \/ AnalyzeReturns
  \/ \E i \in 1..MaxDetected : LookupSettles(i)
  \/ ScoreItem
  \/ AggregateAndStore
  \/ StoreFails

SpecRun == InitRun /\ [][NextRun]_vars

\* ------------------------------------------------------------------------
\* Properties of the calls
\* ------------------------------------------------------------------------
Returned(f) == pc = "done" /\ op = f

IsFiniteNumber(x) == x[2] > 0

InUnitInterval(x) == IsFiniteNumber(x) /\ x[1] >= 0 /\ x[1] <= x[2]

\* C1: calculateMetrics never raises: every call returns an EvaluationMetrics
\* record, whose fatAccuracy is max(0, 1 - fatError).
C1_CalculateMetricsNeverRaises ==
  Returned("calculateMetrics") =>
    /\ ret.kind = "returned"
    /\ ret.value.fatAccuracy = MathMax(Zero, Sub(One, ret.locals.fatError))

\* overallScore of the record m is the weighted sum of its f1Score, its
\* quantityAccuracy and its calorieAccuracy
IsWeightedSum(m) ==
  m.overallScore = Add(Add(Mul(Num(4, 10), m.f1Score), Mul(Num(3, 10), m.quantityAccuracy)),
                       Mul(Num(3, 10), m.calorieAccuracy))

\* C2: every EvaluationMetrics record produced during an evaluation run, that
\* is every record returned by calculateMetrics, every record rebuilt after
\* the merge of calculateNutritionAccuracy and every zeroed record of a failed
\* item, has overallScore = 0.4*f1Score + 0.3*quantityAccuracy +
\* 0.3*calorieAccuracy.
C2_OverallScoreIsWeightedSum ==
  /\ \A k \in 1..Len(returnedMetrics) : IsWeightedSum(returnedMetrics[k])
  /\ \A i \in 1..Len(results) : IsWeightedSum(results[i].metrics)

\* a run that has pushed the zeroed record of a failed item and a rebuilt
\* record whose overallScore differs from the one calculateMetrics returned
C2_Witness ==
  /\ Len(results) = 2
  /\ IsNull(results[1].aiResult)
  /\ results[1].metrics.overallScore = Zero
  /\ ~IsNull(results[2].aiResult)
  /\ Len(returnedMetrics) = 1
  /\ Gt(results[2].metrics.overallScore, Zero)
  /\ results[2].metrics.overallScore # returnedMetrics[1].overallScore

\* the actual indices claimed by the detected name at position d
ClaimedBy(L, d) == {j \in 1..Len(L.actualFoods) : <<d, j>> \in L.claimed}

\* the actual indices claimed by detected names before position d
ClaimedBefore(L, d) ==
  {j \in 1..Len(L.actualFoods) : \E e \in 1..(d - 1) : <<e, j>> \in L.claimed}

\* the not-yet-claimed actual indices whose name matches detected name d
UnclaimedMatches(L, d) ==
  {j \in (1..Len(L.actualFoods)) \ ClaimedBefore(L, d) :
     foodsMatch(L.detectedFoods[d], L.actualFoods[j])}

\* C3: in the true-positive pass each detected name claims at most one actual
\* name, the first not-yet-claimed one that matches it; so truePositives <=
\* |detected| and falsePositives >= 0.
C3_DetectedClaimsFirstUnclaimedMatch ==
  Returned("calculateMetrics") =>
    LET L == ret.locals
    IN  /\ \A d \in 1..Len(L.detectedFoods) :
             ClaimedBy(L, d) =
               IF UnclaimedMatches(L, d) = {} THEN {}
               ELSE {CHOOSE j \in UnclaimedMatches(L, d) :
                       \A k \in UnclaimedMatches(L, d) : j <= k}
        /\ L.truePositives <= Len(L.detectedFoods)
        /\ L.falsePositives >= 0

\* C4: in the true-positive pass each actual index is claimed by at most one
\* detected food; so truePositives <= |actual| and falseNegatives >= 0.
C4_ActualClaimedAtMostOnce ==
  Returned("calculateMetrics") =>
    LET L == ret.locals
    IN  /\ \A j \in 1..Len(L.actualFoods) :
             Cardinality({d \in 1..Len(L.detectedFoods) : <<d, j>> \in L.claimed}) <= 1
        /\ L.truePositives = Cardinality(L.claimed)
        /\ L.matchedActual = {c[2] : c \in L.claimed}
        /\ L.truePositives <= Len(L.actualFoods)
        /\ L.falseNegatives = Len(L.actualFoods) - L.truePositives
        /\ L.falseNegatives >= 0

\* two detected names match the same actual name; the first claimed it and
\* the second did not
C4_Witness ==
  /\ Returned("calculateMetrics")
  /\ LET L == ret.locals
     IN  \E j \in 1..Len(L.actualFoods) :
           \E d1, d2 \in 1..Len(L.detectedFoods) :
             /\ d1 < d2
             /\ foodsMatch(L.detectedFoods[d2], L.actualFoods[j])
             /\ <<d1, j>> \in L.claimed
             /\ <<d2, j>> \notin L.claimed

\* the words of a name: its maximal runs of non-white-space characters, in
\* lower case
RECURSIVE WordsOf(_, _, _)
WordsOf(str, word, words) ==
  IF str = <<>> THEN (IF word = <<>> THEN words ELSE Append(words, word))
  ELSE IF Head(str) \in WhiteSpace
       THEN WordsOf(Tail(str), <<>>, IF word = <<>> THEN words ELSE Append(words, word))
       ELSE WordsOf(Tail(str), Append(word, ToLowerChar(Head(str))), words)

\* the words joined by single spaces
RECURSIVE JoinWords(_)
JoinWords(words) ==
  IF words = <<>> THEN <<>>
  ELSE IF Len(words) = 1 THEN words[1]
       ELSE words[1] \o <<" ">> \o JoinWords(Tail(words))

NormalForm(name) == JoinWords(WordsOf(name, <<>>, <<>>))

IsSubstring(t, str) ==
  \E i \in 0..Len(str) :
    /\ i + Len(t) <= Len(str)
    /\ \A k \in 1..Len(t) : str[i + k] = t[k]

\* C5: two food names match iff, after lowercasing, trimming and collapsing
\* runs of white space to one space, they are equal or one is a substring of
\* the other; the relation is symmetric.
C5_FoodsMatchIsNormalisedSubstring ==
  Returned("foodsMatch") =>
    LET n1 == NormalForm(args.food1)
        n2 == NormalForm(args.food2)
    IN  /\ ret = (n1 = n2 \/ IsSubstring(n1, n2) \/ IsSubstring(n2, n1))
        /\ ret = foodsMatch(args.food2, args.food1)

\* the names match only once normalised, the second strictly inside the first
C5_Witness ==
  /\ Returned("foodsMatch")
  /\ ret = TRUE
  /\ NormalForm(args.food1) # NormalForm(args.food2)
  /\ NormalForm(args.food1) # <<>>
  /\ IsSubstring(NormalForm(args.food1), NormalForm(args.food2))
  /\ ~IsSubstring(args.food1, args.food2)
  /\ ~IsSubstring(args.food2, args.food1)

NamesOf(foods) == [i \in 1..Len(foods) |-> foods[i].name]

\* C6: detected ["chicken","rice"] against actual ["grilled chicken breast",
\* "brown rice","broccoli"] gives TP=2, FP=0, FN=1, precision=1, recall=2/3,
\* f1=0.8, foodDetectionAccuracy=2/3; in general, when TP>0, precision =
\* TP/(TP+FP), recall = TP/(TP+FN) and f1 is their harmonic mean.
C6_PrecisionRecallF1 ==
  Returned("calculateMetrics") =>
    LET L == ret.locals
        TP == Num(L.truePositives, 1)
    IN  /\ ( /\ NamesOf(args.aiResult.foods) = <<chicken, rice>>
             /\ NamesOf(args.groundTruth.foods) = <<grilledChickenBreast, brownRice, broccoli>> )
           => /\ L.truePositives = 2 /\ L.falsePositives = 0 /\ L.falseNegatives = 1
              /\ L.precision = One
              /\ L.recall = Num(2, 3)
              /\ L.f1Score = Num(8, 10)
              /\ L.foodDetectionAccuracy = Num(2, 3)
        /\ L.truePositives > 0
           => /\ Mul(L.precision, Num(L.truePositives + L.falsePositives, 1)) = TP
              /\ Mul(L.recall, Num(L.truePositives + L.falseNegatives, 1)) = TP
              /\ Mul(L.f1Score, Add(Div(One, L.precision), Div(One, L.recall))) = Num(2, 1)

\* the call of the example has returned its scores
C6_Witness ==
  /\ Returned("calculateMetrics")
  /\ NamesOf(args.aiResult.foods) = <<chicken, rice>>
  /\ NamesOf(args.groundTruth.foods) = <<grilledChickenBreast, brownRice, broccoli>>
  /\ ret.locals.f1Score = Num(4, 5)

\* C7: with an empty detected list and a non-empty ground truth precision,
\* recall, f1Score and foodDetectionAccuracy are 0, and with an empty ground
\* truth foodDetectionAccuracy is 0; no value is the result of a division by
\* zero.  Stated of the values computed at lines 74-77 and of the record
\* whenever one is returned.
C7_EmptyInputsGiveZero ==
  Returned("calculateMetrics") =>
    LET L == ret.locals
    IN  /\ (args.aiResult.foods = <<>> /\ args.groundTruth.foods # <<>>)
           => /\ L.precision = Zero /\ L.recall = Zero
              /\ L.f1Score = Zero /\ L.foodDetectionAccuracy = Zero
              /\ ret.kind = "returned"
                 => /\ ret.value.precision = Zero /\ ret.value.recall = Zero
                    /\ ret.value.f1Score = Zero
                    /\ ret.value.foodDetectionAccuracy = Zero
        /\ args.groundTruth.foods = <<>>
           => /\ L.foodDetectionAccuracy = Zero
              /\ ret.kind = "returned" => ret.value.foodDetectionAccuracy = Zero
        /\ IsFiniteNumber(L.precision) /\ IsFiniteNumber(L.recall)
        /\ IsFiniteNumber(L.f1Score) /\ IsFiniteNumber(L.foodDetectionAccuracy)

\* nothing was detected against a ground truth of two foods
C7_Witness ==
  /\ Returned("calculateMetrics")
  /\ args.aiResult.foods = <<>>
  /\ Len(args.groundTruth.foods) = 2
  /\ ret.locals.foodDetectionAccuracy = Zero
  /\ ret.locals.falseNegatives = 2

\* index of the first ground-truth food whose name matches detected food i,
\* 0 when none does
FirstMatchingGT(i) ==
  LET M == {j \in 1..Len(args.groundTruth.foods) :
              foodsMatch(args.aiResult.foods[i].name, args.groundTruth.foods[j].name)}
  IN  IF M = {} THEN 0 ELSE CHOOSE j \in M : \A k \in M : j <= k

GTGramsOf(i) ==
  LET gtFood == args.groundTruth.foods[FirstMatchingGT(i)]
  IN  convertToGrams(gtFood.quantity, gtFood.unit)

AIGramsOf(i) ==
  convertToGrams(args.aiResult.foods[i].quantity, args.aiResult.foods[i].unit)

\* the detected foods for which an error term is recorded
RecordedTerms ==
  {i \in 1..Len(args.aiResult.foods) :
     FirstMatchingGT(i) # 0 /\ Gt(GTGramsOf(i), Zero)}

\* the quantity pass of C8 without its range conclusion
QuantityPassAsDescribed ==
  LET L == ret.locals
      n == Cardinality(RecordedTerms)
  IN  /\ Len(L.quantityErrors) = n
      /\ \A i \in RecordedTerms :
           L.quantityErrors[Cardinality({r \in RecordedTerms : r <= i})] =
             Div(MathAbs(Sub(AIGramsOf(i), GTGramsOf(i))), GTGramsOf(i))
      /\ n = 0 => L.avgQuantityError = One
      /\ n > 0 => Mul(L.avgQuantityError, Num(n, 1)) = SumSeq(L.quantityErrors)
      /\ L.quantityAccuracy =
           IF Ge(L.avgQuantityError, One) THEN Zero ELSE Sub(One, L.avgQuantityError)

\* C8: each detected food is compared with the first ground-truth food whose
\* name matches it, whatever the true-positive pass claimed; a term
\* |aiGrams - gtGrams| / gtGrams is recorded only when gtGrams > 0;
\* avgQuantityError is the mean of the recorded terms, or 1 when there is
\* none; quantityAccuracy = max(0, 1 - avgQuantityError) lies in [0,1].
C8_QuantityAccuracy ==
  Returned("calculateMetrics") =>
    /\ QuantityPassAsDescribed
    /\ InUnitInterval(ret.locals.quantityAccuracy)

\* the part of C8 that the code satisfies
C8_QuantityPassOnly == Returned("calculateMetrics") => QuantityPassAsDescribed

AccuracyAsDescribed(acc, ai, gt) ==
  LET diff == IF Gt(ai, gt) THEN Sub(ai, gt) ELSE Sub(gt, ai)
  IN  /\ Gt(gt, Zero) => IF Ge(diff, gt) THEN acc = Zero ELSE Mul(acc, gt) = Sub(gt, diff)
      /\ gt = Zero => acc = One
      /\ InUnitInterval(acc)

\* C9: calculateNutritionAccuracy returns, for calories, protein, carbs and
\* fat, max(0, 1 - |ai - gt| / gt) when gt > 0 and 1 when gt = 0; each result
\* lies in [0,1]; ai = 500 and gt = 400 give calorieAccuracy 0.75.
C9_NutritionAccuracy ==
  Returned("calculateNutritionAccuracy") =>
    LET ai == args.aiTotals
        gt == args.groundTruth
    IN  /\ AccuracyAsDescribed(ret.calorieAccuracy, ai.calories, gt.totalCalories)
        /\ AccuracyAsDescribed(ret.proteinAccuracy, ai.protein, gt.totalProtein)
        /\ AccuracyAsDescribed(ret.carbsAccuracy, ai.carbs, gt.totalCarbs)
        /\ AccuracyAsDescribed(ret.fatAccuracy, ai.fat, gt.totalFat)
        /\ (ai.calories = Num(500, 1) /\ gt.totalCalories = Num(400, 1))
           => ret.calorieAccuracy = Num(75, 100)

\* calories 500 against 400, a protein error above 100% and a zero fat total
C9_Witness ==
  /\ Returned("calculateNutritionAccuracy")
  /\ args.aiTotals.calories = Num(500, 1)
  /\ args.groundTruth.totalCalories = Num(400, 1)
  /\ ret.calorieAccuracy = Num(3, 4)
  /\ args.aiTotals.protein = Num(50, 1) /\ args.groundTruth.totalProtein = Num(20, 1)
  /\ ret.proteinAccuracy = Zero
  /\ args.aiTotals.fat = Num(20, 1) /\ args.groundTruth.totalFat = Zero
  /\ ret.fatAccuracy = One
  /\ args.aiTotals.carbs = Num(50, 1) /\ args.groundTruth.totalCarbs = Num(20, 1)

MetricFields ==
  {"precision", "recall", "f1Score", "foodDetectionAccuracy", "quantityAccuracy",
   "avgQuantityError", "calorieAccuracy", "proteinAccuracy", "carbsAccuracy",
   "fatAccuracy", "overallScore"}

\* the sum of field f over the records at positions i..Len(batch)
RECURSIVE FieldSumFrom(_, _, _)
FieldSumFrom(batch, f, i) ==
  IF i > Len(batch) THEN Zero
  ELSE Add(batch[i][f], FieldSumFrom(batch, f, i + 1))

\* C10: aggregateMetrics returns, for each of the eleven fields, the
\* arithmetic mean of that field over the batch; on a single-element list it
\* returns the element unchanged.
C10_AggregateIsFieldwiseMean ==
  (Returned("aggregateMetrics") /\ Len(args.results) > 0) =>
    /\ DOMAIN ret = MetricFields
    /\ \A f \in MetricFields :
         Mul(ret[f], Num(Len(args.results), 1)) = FieldSumFrom(args.results, f, 1)
    /\ Len(args.results) = 1 => ret = args.results[1]

\* a batch of two different records
C10_Witness ==
  /\ Returned("aggregateMetrics")
  /\ Len(args.results) = 2
  /\ args.results[1].recall = Num(1, 3)
  /\ args.results[2].recall = One
  /\ ret.recall = Num(2, 3)
  /\ ret.precision = Num(3, 4)

\* ------------------------------------------------------------------------
\* Properties of the evaluation run
\* ------------------------------------------------------------------------
\* the handler has answered a request for which items were fetched
RunAnswered == runPc = "responded" /\ benchmarkItems # <<>>

\* one record per fetched item, in order; a record without an AI result is
\* the all-zero record (avgQuantityError 1) with an error annotation; a
\* stored run holds these records
OneRecordPerItem ==
  /\ Len(results) = Len(benchmarkItems)
  /\ \A i \in 1..Len(results) :
       /\ results[i].imageUrl = benchmarkItems[i].imageUrl
       /\ results[i].groundTruth = benchmarkItems[i].groundTruth
       /\ IsNull(results[i].aiResult) =>
            /\ \A f \in DOMAIN results[i].metrics \ {"avgQuantityError"} :
                 results[i].metrics[f] = Zero
            /\ results[i].metrics.avgQuantityError = One
            /\ results[i].errors # <<>>
  /\ response.status = 200 =>
       /\ evaluationRuns # <<>>
       /\ evaluationRuns[Len(evaluationRuns)].results = results
       /\ response.results = results

\* C11: a failure while one benchmark item is evaluated never aborts the
\* run: the item gets the all-zero record with an error annotation, the
\* remaining items are evaluated, and the results hold exactly one record per
\* fetched item, in order.
C11_ItemFailureNeverAbortsRun == RunAnswered => OneRecordPerItem

\* the part of C11 that the code satisfies: runs over rows whose groundTruth
\* text parses
C11_ParseableRowsOnly ==
  (RunAnswered /\ \A i \in 1..Len(benchmarkItems) :
                    ~JSONParseThrows(benchmarkItems[i].groundTruth))
    => OneRecordPerItem

\* C12: the aggregated metrics stored and returned by the run are, field by
\* field, the arithmetic mean over the metrics records of all items of the
\* run, failed items included, and are finite numbers even when every item
\* failed.
C12_AggregateOverAllItems ==
  (runPc = "responded" /\ response.status = 200) =>
    LET all == [i \in 1..Len(results) |-> results[i].metrics]
        agg == response.aggregated.aggregated
    IN  /\ evaluationRuns[Len(evaluationRuns)].metrics = response.aggregated
        /\ \A f \in MetricFields :
             /\ IsFiniteNumber(agg[f])
             /\ Mul(agg[f], Num(Len(all), 1)) = FieldSumFrom(all, f, 1)

\* ------------------------------------------------------------------------
\* Inputs of the calls of nutrition-calculator.ts
\* ------------------------------------------------------------------------
MaxUnitLen == 3

\* the keys of SERVING_CONVERSIONS
TableKeys == {e[1] : e \in SERVING_CONVERSIONS}

UnitChars == {"g", "G", "s", " "}

\* unit strings that are no table key, or a table key in another spelling
OtherUnits ==
  { <<" ","C","u","p","s">>, <<"C","U","P">>, <<"c","u","p","s","s">>,
    <<"f","l"," "," ","o","z">>, <<"F","L"," ","O","Z"," ">>, <<"f","l","\t","o","z">>,
    <<"z","o","r","b","l","e","f","l","a","x">>,
    <<"c","o","n","s","t","r","u","c","t","o","r">>,
    <<"c","o","n","s","t","r","u","c","t","o","r","s">>,
    <<"C","o","n","s","t","r","u","c","t","o","r">>,
    <<"_","_","p","r","o","t","o","_","_">>,
    <<"t","o","S","t","r","i","n","g">> }

\* the unit strings of the calls: short strings over UnitChars, the table
\* keys, their plurals and OtherUnits
Units ==
  SeqsUpTo(UnitChars, MaxUnitLen) \cup TableKeys \cup {k \o <<"s">> : k \in TableKeys}
    \cup OtherUnits

Quantities == {Num(0, 1), Num(1, 1), Num(3, 2), Num(2, 1)}

convertToGramsArgs == {[quantity |-> q, unit |-> u] : q \in Quantities, u \in Units}

MaxEntries == 2

\* per-100g profiles of stored food items: oats (sugar present with value 0),
\* oil (every optional field present with value 0) and a food whose optional
\* fields are absent
FoodItems ==
  { [calories |-> Num(389, 1), protein |-> Num(169, 10), carbs |-> Num(663, 10),
     fat |-> Num(69, 10), fiber |-> Num(106, 10), sugar |-> Zero, sodium |-> Num(2, 1)],
    [calories |-> Num(884, 1), protein |-> Zero, carbs |-> Zero,
     fat |-> Num(100, 1), fiber |-> Zero, sugar |-> Zero, sodium |-> Zero],
    [calories |-> Num(52, 1), protein |-> Num(3, 10), carbs |-> Num(14, 1),
     fat |-> Num(2, 10), fiber |-> Undefined, sugar |-> Undefined, sodium |-> Undefined] }

\* serving sizes: 50 g, 1 serving (100 g) and 1.25 servings (125 g)
Servings ==
  { [quantity |-> Num(50, 1), unit |-> <<"g">>, grams |-> Num(50, 1)],
    [quantity |-> One, unit |-> <<"s","e","r","v","i","n","g">>, grams |-> Num(100, 1)],
    [quantity |-> Num(5, 4), unit |-> <<"s","e","r","v","i","n","g">>, grams |-> Num(125, 1)] }

\* FoodItemWithServing: a food item together with its serving
FoodItemsWithServing ==
  {[calories |-> f.calories, protein |-> f.protein, carbs |-> f.carbs, fat |-> f.fat,
    fiber |-> f.fiber, sugar |-> f.sugar, sodium |-> f.sodium, serving |-> g] :
     f \in FoodItems, g \in Servings}

EntryLists == SeqsUpTo(FoodItemsWithServing, MaxEntries)

calculateNutritionForServingArgs ==
  {[foodItem |-> f, serving |-> g] : f \in FoodItems, g \in Servings}

calculateTotalNutritionArgs == {[items |-> items] : items \in EntryLists}

\* the per-serving profiles of a list of entries
ServingResults(items) ==
  [i \in 1..Len(items) |-> calculateNutritionForServing(items[i], items[i].serving)]

\* the meals of a day are the per-serving profiles of the entries of items
calculateDailyTotalsArgs ==
  {[meals |-> ServingResults(items), items |-> items] : items \in EntryLists}

\* calories and gram values of the profiles given to calculateMacroPercentages
MacroCalories == {Zero, Num(100, 1), Num(580, 1)}

MacroGrams == {Zero, Num(1, 2), Num(20, 1), Num(50, 1)}

calculateMacroPercentagesArgs ==
  {[nutrition |-> [calories |-> c, protein |-> p, carbs |-> cb, fat |-> f,
                   fiber |-> Undefined, sugar |-> Undefined, sodium |-> Undefined]] :
     c \in MacroCalories, p \in MacroGrams, cb \in MacroGrams, f \in MacroGrams}

MaxWords == 2

\* the words of the descriptions: the keywords of lines 357-372, two of them
\* in other letter case, a word that holds a keyword, and words that hold none
DescriptionWords ==
  { <<"w","h","o","l","e">>, <<"e","n","t","i","r","e">>, <<"s","l","i","c","e">>,
    <<"p","i","e","c","e">>, <<"c","h","u","n","k">>, <<"c","u","p">>,
    <<"t","a","b","l","e","s","p","o","o","n">>, <<"t","b","s","p">>,
    <<"t","e","a","s","p","o","o","n">>, <<"t","s","p">>,
    <<"S","l","i","c","e","s">>, <<"C","U","P">>, <<"c","u","p","c","a","k","e">>,
    <<"a","p","p","l","e">>, <<"o","f">> }

\* the words of a list joined by single spaces
RECURSIVE JoinDescription(_)
JoinDescription(words) ==
  IF words = <<>> THEN <<>>
  ELSE IF Len(words) = 1 THEN words[1]
  ELSE words[1] \o <<" ">> \o JoinDescription(Tail(words))

Descriptions == {JoinDescription(ws) : ws \in SeqsUpTo(DescriptionWords, MaxWords)}

estimateGramsFromDescriptionArgs ==
  {[description |-> d, quantity |-> q] : d \in Descriptions, q \in {One, Num(3, 2)}}

\* ------------------------------------------------------------------------
\* The calls of nutrition-calculator.ts
\* ------------------------------------------------------------------------
InitCalc ==
  /\ target \in EmitTargets
  /\ pc = "call"
  /\ ret = <<>>
  /\ \/ op = "convertToGrams" /\ args \in convertToGramsArgs
     \/ op = "calculateNutritionForServing" /\ args \in calculateNutritionForServingArgs
     \/ op = "calculateTotalNutrition" /\ args \in calculateTotalNutritionArgs
     \/ op = "calculateDailyTotals" /\ args \in calculateDailyTotalsArgs
     \/ op = "calculateMacroPercentages" /\ args \in calculateMacroPercentagesArgs
     \/ op = "estimateGramsFromDescription" /\ args \in estimateGramsFromDescriptionArgs
  /\ NoRun
  /\ NoService

calculateNutritionForServingCall ==
  /\ pc = "call" /\ op = "calculateNutritionForServing"
  /\ ret' = calculateNutritionForServing(args.foodItem, args.serving)
  /\ pc' = "done"
  /\ UNCHANGED <<target, serviceVars, op, args, runVars>>

calculateTotalNutritionCall ==
  /\ pc = "call" /\ op = "calculateTotalNutrition"
  /\ ret' = calculateTotalNutrition(args.items)
  /\ pc' = "done"
  /\ UNCHANGED <<target, serviceVars, op, args, runVars>>

calculateDailyTotalsCall ==
  /\ pc = "call" /\ op = "calculateDailyTotals"
  /\ ret' = calculateDailyTotals(args.meals)
  /\ pc' = "done"
  /\ UNCHANGED <<target, serviceVars, op, args, runVars>>

convertToGramsCall ==
  /\ pc = "call" /\ op = "convertToGrams"
  /\ ret' = convertToGrams(args.quantity, args.unit)
  /\ pc' = "done"
  /\ UNCHANGED <<target, serviceVars, op, args, runVars>>

calculateMacroPercentagesCall ==
  /\ pc = "call" /\ op = "calculateMacroPercentages"
  /\ ret' = calculateMacroPercentages(args.nutrition)
  /\ pc' = "done"
  /\ UNCHANGED <<target, serviceVars, op, args, runVars>>

estimateGramsFromDescriptionCall ==
  /\ pc = "call" /\ op = "estimateGramsFromDescription"
  /\ ret' = estimateGramsFromDescription(args.description, args.quantity)
  /\ pc' = "done"
  /\ UNCHANGED <<target, serviceVars, op, args, runVars>>

NextCalc ==
  \/ convertToGramsCall
  \/ calculateNutritionForServingCall
  \/ calculateTotalNutritionCall
  \/ calculateDailyTotalsCall
  \/ calculateMacroPercentagesCall
  \/ estimateGramsFromDescriptionCall

SpecCalc == InitCalc /\ [][NextCalc]_vars

\* ------------------------------------------------------------------------
\* Properties of convertToGrams
\* ------------------------------------------------------------------------
\* the conversion table as the claims state it
StatedTable ==
  { <<<<"c","u","p">>, Num(240, 1)>>,
    <<<<"f","l"," ","o","z">>, Num(30, 1)>>,
    <<<<"t","a","b","l","e","s","p","o","o","n">>, Num(15, 1)>>,
    <<<<"t","b","s","p">>, Num(15, 1)>>,
    <<<<"t","e","a","s","p","o","o","n">>, Num(5, 1)>>,
    <<<<"t","s","p">>, Num(5, 1)>>,
    <<<<"g">>, Num(1, 1)>>, <<<<"g","r","a","m">>, Num(1, 1)>>,
    <<<<"k","g">>, Num(1000, 1)>>,
    <<<<"k","i","l","o","g","r","a","m">>, Num(1000, 1)>>,
    <<<<"o","z">>, Num(2835, 100)>>, <<<<"o","u","n","c","e">>, Num(2835, 100)>>,
    <<<<"l","b">>, Num(45359, 100)>>, <<<<"p","o","u","n","d">>, Num(45359, 100)>>,
    <<<<"p","i","e","c","e">>, Num(100, 1)>>, <<<<"s","l","i","c","e">>, Num(30, 1)>>,
    <<<<"s","e","r","v","i","n","g">>, Num(100, 1)>>,
    <<<<"w","h","o","l","e">>, Num(150, 1)>>, <<<<"m","e","d","i","u","m">>, Num(120, 1)>>,
    <<<<"l","a","r","g","e">>, Num(180, 1)>>, <<<<"s","m","a","l","l">>, Num(80, 1)>> }

StatedKeys == {e[1] : e \in StatedTable}

C14_GramsFiniteNonNegative ==
  Returned("convertToGrams") => (IsFiniteNumber(ret) /\ ret[1] >= 0)

\* C15: for every table unit u whose plural u+"s" is no table key,
\* convertToGrams(q, u+"s") = convertToGrams(q, u); only one trailing "s" is
\* stripped, and only after the exact lookup failed.
C15_PluralFallsBackToSingular ==
  Returned("convertToGrams") =>
    \A e \in StatedTable :
      /\ (args.unit = e[1] \o <<"s">> /\ args.unit \notin StatedKeys)
           => /\ ret = Mul(args.quantity, e[2])
              /\ ret = convertToGrams(args.quantity, e[1])
      /\ (args.unit = e[1] \o <<"s","s">> /\ e[1] \o <<"s">> \notin StatedKeys
            /\ args.unit \notin StatedKeys)
           => ret = Mul(args.quantity, Num(100, 1))

\* 2 cups are 480 g
C15_Witness ==
  /\ Returned("convertToGrams")
  /\ args.unit = <<"c","u","p","s">>
  /\ args.quantity = Num(2, 1)
  /\ ret = Num(480, 1)

\* the unit in lower case without leading and trailing white space
LowerTrimmed(unit) == TrimEnd(TrimStart([i \in 1..Len(unit) |-> ToLowerChar(unit[i])]))

\* str without one trailing "s"
WithoutTrailingS(str) ==
  IF str # <<>> /\ str[Len(str)] = "s" THEN SubSeq(str, 1, Len(str) - 1) ELSE str

\* C16: for every unit that, lowercased and trimmed, is no table key and
\* whose form without one trailing "s" is no table key either,
\* convertToGrams(q, unit) = q * 100.
C16_UnknownUnitIsHundredGrams ==
  Returned("convertToGrams") =>
    ( ( /\ LowerTrimmed(args.unit) \notin StatedKeys
        /\ WithoutTrailingS(LowerTrimmed(args.unit)) \notin StatedKeys )
      => ret = Mul(args.quantity, Num(100, 1)) )

\* C17: two unit strings that differ only in letter case or in white space
\* (leading, trailing, or the amount inside a multi-word unit) convert every
\* quantity to the same number of grams.
C17_UnitCaseAndWhiteSpaceInsensitive ==
  Returned("convertToGrams") =>
    \A other \in Units :
      NormalForm(other) = NormalForm(args.unit)
        => convertToGrams(args.quantity, other) = ret

\* ------------------------------------------------------------------------
\* Properties of calculateNutritionForServing, calculateTotalNutrition and
\* calculateDailyTotals
\* ------------------------------------------------------------------------
RequiredFields == {"calories", "protein", "carbs", "fat"}

OptionalFields == {"fiber", "sugar", "sodium"}

\* C18: calculateNutritionForServing multiplies every present field of the
\* per-100g profile by grams / 100, optional fields of value 0 included, and
\* an optional field is absent in the result exactly when it is absent in
\* the profile.
C18_ServingScalesEveryPresentField ==
  Returned("calculateNutritionForServing") =>
    LET scale == Div(args.serving.grams, Num(100, 1))
    IN  /\ \A f \in RequiredFields : ret[f] = Mul(args.foodItem[f], scale)
        /\ \A f \in OptionalFields :
             IF args.foodItem[f] = Undefined THEN ret[f] = Undefined
             ELSE ret[f] = Mul(args.foodItem[f], scale)

\* the same without the optional fields of value 0: required fields and
\* non-zero optional fields are scaled, absent optional fields stay absent
C18_NonZeroFieldsScaled ==
  Returned("calculateNutritionForServing") =>
    LET scale == Div(args.serving.grams, Num(100, 1))
    IN  /\ \A f \in RequiredFields : ret[f] = Mul(args.foodItem[f], scale)
        /\ \A f \in OptionalFields :
             /\ args.foodItem[f] = Undefined => ret[f] = Undefined
             /\ (args.foodItem[f] # Undefined /\ args.foodItem[f] # Zero)
                  => ret[f] = Mul(args.foodItem[f], scale)

\* the bijections of 1..n
Perms(n) == {p \in [1..n -> 1..n] : \A i, j \in 1..n : p[i] = p[j] => i = j}

\* the sum over the entries of field f of the per-serving values, an absent
\* value counted as 0
RECURSIVE ServingFieldSum(_, _)
ServingFieldSum(items, f) ==
  IF items = <<>> THEN Zero
  ELSE LET v == calculateNutritionForServing(items[1], items[1].serving)[f]
       IN  Add(IF v = Undefined THEN Zero ELSE v, ServingFieldSum(Tail(items), f))

\* a field rounded as stated: calories and sodium to an integer, the others
\* to one decimal place
StatedRounding(f, x) ==
  IF f \in {"calories", "sodium"} THEN MathRound(x)
  ELSE Div(MathRound(Mul(x, Num(10, 1))), Num(10, 1))

\* C19: calculateTotalNutrition returns the same profile for every
\* permutation of its entry list, and each field of it is the sum of the
\* per-serving values, absent optional values counted as 0, rounded once
\* after the summation.
C19_TotalIsOrderIndependentRoundedSum ==
  Returned("calculateTotalNutrition") =>
    /\ \A p \in Perms(Len(args.items)) :
         calculateTotalNutrition([i \in 1..Len(args.items) |-> args.items[p[i]]]) = ret
    /\ \A f \in RequiredFields \cup OptionalFields :
         ret[f] = StatedRounding(f, ServingFieldSum(args.items, f))

\* the order independence alone, the sums being exact
C19_OrderIndependent ==
  Returned("calculateTotalNutrition") =>
    \A p \in Perms(Len(args.items)) :
      calculateTotalNutrition([i \in 1..Len(args.items) |-> args.items[p[i]]]) = ret

\* the rounded sums for the required fields and for optional fields whose
\* sum is positive
C19_PositiveSumsRounded ==
  Returned("calculateTotalNutrition") =>
    \A f \in RequiredFields \cup OptionalFields :
      (f \in RequiredFields \/ Gt(ServingFieldSum(args.items, f), Zero))
        => ret[f] = StatedRounding(f, ServingFieldSum(args.items, f))

\* C20: calculateDailyTotals of the per-serving profiles of a list of
\* entries equals calculateTotalNutrition of the entries in every field,
\* absent optional fields included.
C20_DailyTotalsEqualTotalNutrition ==
  Returned("calculateDailyTotals") =>
    /\ args.meals = ServingResults(args.items)
    /\ ret = calculateTotalNutrition(args.items)
    /\ \A f \in OptionalFields :
         ret[f] = Undefined <=> calculateTotalNutrition(args.items)[f] = Undefined

\* 125 g of oats and 50 g of the food without optional fields: sodium 2.5
\* rounds to 3, fiber 13.25 to 13.3, and sugar is absent
C20_Witness ==
  /\ Returned("calculateDailyTotals")
  /\ Len(args.meals) = 2
  /\ args.meals[1].sodium = Num(5, 2)
  /\ args.meals[2].sodium = Undefined
  /\ ret.sodium = Num(3, 1)
  /\ ret.fiber = Num(133, 10)
  /\ ret.sugar = Undefined
  /\ ret = calculateTotalNutrition(args.items)

\* ------------------------------------------------------------------------
\* Properties of calculateMacroPercentages and estimateGramsFromDescription
\* ------------------------------------------------------------------------
\* round(100 * factor * grams / calories)
StatedPercent(factor, grams, calories) ==
  MathRound(Div(Mul(Num(100 * factor, 1), grams), calories))

\* C21: calculateMacroPercentages of a profile whose calories are 0 returns
\* 0 for all three percentages, whatever protein, carbs and fat are; for
\* calories > 0 each percentage is round(100 * factor * grams / calories)
\* with the factors 4, 4 and 9.
C21_MacroPercentages ==
  Returned("calculateMacroPercentages") =>
    LET n == args.nutrition
    IN  IF n.calories = Zero
        THEN ret = [proteinPercent |-> Zero, carbsPercent |-> Zero, fatPercent |-> Zero]
        ELSE ret = [proteinPercent |-> StatedPercent(4, n.protein, n.calories),
                    carbsPercent   |-> StatedPercent(4, n.carbs, n.calories),
                    fatPercent     |-> StatedPercent(9, n.fat, n.calories)]

\* the part for calories > 0
C21_PositiveCalories ==
  Returned("calculateMacroPercentages") =>
    LET n == args.nutrition
    IN  Gt(n.calories, Zero) =>
          ret = [proteinPercent |-> StatedPercent(4, n.protein, n.calories),
                 carbsPercent   |-> StatedPercent(4, n.carbs, n.calories),
                 fatPercent     |-> StatedPercent(9, n.fat, n.calories)]

\* the keywords in their stated priority order with their grams per unit
StatedKeywords ==
  << <<<<"w","h","o","l","e">>, 150>>, <<<<"s","l","i","c","e">>, 30>>,
     <<<<"p","i","e","c","e">>, 100>>, <<<<"c","h","u","n","k">>, 100>>,
     <<<<"c","u","p">>, 240>>,
     <<<<"t","a","b","l","e","s","p","o","o","n">>, 15>>, <<<<"t","b","s","p">>, 15>>,
     <<<<"t","e","a","s","p","o","o","n">>, 5>>, <<<<"t","s","p">>, 5>> >>

\* the stated keywords with 'entire' as a second word for 'whole'
KeywordsWithEntire ==
  << StatedKeywords[1], <<<<"e","n","t","i","r","e">>, 150>> >>
    \o SubSeq(StatedKeywords, 2, Len(StatedKeywords))

\* the grams per unit of the first keyword of the list that occurs in the
\* text in any letter case, 100 when none occurs
GramsPerUnit(keywords, text) ==
  LET lower == [i \in 1..Len(text) |-> ToLowerChar(text[i])]
      found == {i \in 1..Len(keywords) : includes(lower, keywords[i][1])}
  IN  IF found = {} THEN 100
      ELSE keywords[CHOOSE i \in found : \A j \in found : i <= j][2]

\* C22 as stated: estimateGramsFromDescription is the quantity times the
\* grams per unit of the first keyword found in the priority order whole,
\* slice, piece/chunk, cup, tablespoon/tbsp, teaspoon/tsp, and times 100
\* when none of these occurs.
C22_FirstKeywordAsStated ==
  Returned("estimateGramsFromDescription") =>
    ret = Mul(args.quantity, Num(GramsPerUnit(StatedKeywords, args.description), 1))

\* C22: estimateGramsFromDescription is the quantity times the grams per
\* unit of the first keyword found in the priority order whole/entire (150),
\* slice (30), piece/chunk (100), cup (240), tablespoon/tbsp (15),
\* teaspoon/tsp (5), and times 100 when none of these occurs, whatever other
\* keywords the text holds.
C22_FirstKeywordWins ==
  Returned("estimateGramsFromDescription") =>
    ret = Mul(args.quantity, Num(GramsPerUnit(KeywordsWithEntire, args.description), 1))

\* 'cup slice' holds two keywords: slice comes first in the priority order
C22_Witness ==
  /\ Returned("estimateGramsFromDescription")
  /\ args.description = <<"c","u","p"," ","s","l","i","c","e">>
  /\ args.quantity = Num(3, 2)
  /\ ret = Num(45, 1)

C26_RecallInUnitInterval ==
  (Returned("calculateMetrics") /\ ret.kind = "returned") =>
    /\ InUnitInterval(ret.value.recall)
    /\ InUnitInterval(ret.value.foodDetectionAccuracy)

\* ------------------------------------------------------------------------
\* The totals accumulated by the lookup callbacks of an evaluation run
\* ------------------------------------------------------------------------
\* field f of the per-serving nutrition of detected food i of the current
\* item for a catalog match with the per-100g profile usda
ServingFieldOf(i, usda, f) ==
  LET food == aiAnalysis.foods[i]
  IN  Mul(usda[f], Div(convertToGrams(food.quantity, food.unit), Num(100, 1)))

\* the sum of field f over the detected foods from i on whose lookup found
\* a match; the others contribute 0
RECURSIVE MatchedSum(_, _)
MatchedSum(f, i) ==
  IF i > Len(foodsWithNutrition) THEN Zero
  ELSE Add(IF IsNull(foodsWithNutrition[i]) THEN Zero ELSE foodsWithNutrition[i][f],
           MatchedSum(f, i + 1))

\* C27: once every lookup callback of an item has finished, aiTotals is the
\* sum of the per-serving nutrition of exactly the detected foods whose
\* lookup found a match, in whatever order the lookups completed; a food
\* whose lookup failed or found nothing contributes 0.
C27_TotalsAreSumOfMatchedFoods ==
  (runPc = "lookups" /\ pending = {}) =>
    /\ \A i \in 1..Len(foodsWithNutrition) :
         IsNull(foodsWithNutrition[i])
           \/ \E n \in SearchNutrition :
                \A f \in {"calories", "protein", "carbs", "fat"} :
                  foodsWithNutrition[i][f] = ServingFieldOf(i, n, f)
    /\ \A f \in {"calories", "protein", "carbs", "fat"} : aiTotals[f] = MatchedSum(f, 1)

\* both lookups of the analysis of chicken (6 oz = 170.1 g) and broccoli
\* (2 pieces = 200 g) found the profile of 130 kcal per 100 g
C27_Witness ==
  /\ runPc = "lookups" /\ pending = {}
  /\ Len(foodsWithNutrition) = 2
  /\ ~IsNull(foodsWithNutrition[1]) /\ ~IsNull(foodsWithNutrition[2])
  /\ aiTotals.calories = Num(48113, 100)

\* one of two lookups failed or found nothing, the other found a match
C27_OneOfTwoMatched ==
  /\ runPc = "lookups" /\ pending = {}
  /\ Len(foodsWithNutrition) = 2
  /\ IsNull(foodsWithNutrition[1]) /\ ~IsNull(foodsWithNutrition[2])
  /\ aiTotals.calories = Num(260, 1)

\* ------------------------------------------------------------------------
\* The Meal, FoodItem and MealFoodItem tables (migration.sql)
\* ------------------------------------------------------------------------
\* foodItem.findUnique({ where: { fdcId } }): the row or null
findUniqueFoodItem(t, fdcId) ==
  IF \E r \in t.FoodItem : r.fdcId = fdcId
  THEN CHOOSE r \in t.FoodItem : r.fdcId = fdcId
  ELSE Null

\* the NOT NULL columns of FoodItem that the data of a create must give
\* besides fdcId
FoodItemDataComplete(data) ==
  \A c \in {"description", "dataType", "calories", "protein", "carbs", "fat"} :
    data[c] # Undefined

\* foodItem.create({ data }): the insert fails when a NOT NULL column is
\* missing or a row with the same fdcId exists (FoodItem_fdcId_key); the
\* generated id of the row is shown as its fdcId, which the index keeps unique
foodItemCreate(t, data) ==
  IF ~FoodItemDataComplete(data) \/ \E r \in t.FoodItem : r.fdcId = data.fdcId
  THEN [ok |-> FALSE, tables |-> t, row |-> Null]
  ELSE LET row == [id |-> data.fdcId, fdcId |-> data.fdcId,
                   description |-> data.description,
                   dataType |-> data.dataType, calories |-> data.calories,
                   protein |-> data.protein, carbs |-> data.carbs, fat |-> data.fat,
                   fiber |-> data.fiber, sugar |-> data.sugar, sodium |-> data.sodium]
       IN  [ok |-> TRUE, tables |-> [t EXCEPT !.FoodItem = @ \cup {row}], row |-> row]

\* mealFoodItem.create({ data }): the insert fails when a NOT NULL column is
\* missing or a row with the same (mealId, foodItemId) exists
\* (MealFoodItem_mealId_foodItemId_key)
mealFoodItemCreate(t, data) ==
  IF \/ \E c \in {"quantity", "unit", "grams"} : data[c] = Undefined
     \/ \E r \in t.MealFoodItem : r.mealId = data.mealId /\ r.foodItemId = data.foodItemId
  THEN [ok |-> FALSE, tables |-> t]
  ELSE [ok |-> TRUE, tables |-> [t EXCEPT !.MealFoodItem = @ \cup {data}]]

\* ------------------------------------------------------------------------
\* POST /api/meals (route.ts)
\* ------------------------------------------------------------------------
MaxFoodItems == 2

\* the fdcIds of the catalog entries of the requests
FdcIds == {1, 2}

\* nutrition of a food item of a request body
ItemNutrition ==
  [calories |-> Num(130, 1), protein |-> Num(3, 1), carbs |-> Num(28, 1),
   fat |-> Zero, fiber |-> Undefined, sugar |-> Zero, sodium |-> One]

\* entries of body.foodItems: two resolved foods, a food without nutrition,
\* a food without grams, and a food whose fdcId is 0
RequestFoodItems ==
  { [fdcId |-> 1, name |-> rice, description |-> Undefined, dataType |-> Undefined,
     nutrition |-> ItemNutrition, quantity |-> One, unit |-> <<"c","u","p">>,
     grams |-> Num(240, 1)],
    [fdcId |-> 2, name |-> chicken, description |-> Undefined, dataType |-> Undefined,
     nutrition |-> ItemNutrition, quantity |-> Num(6, 1), unit |-> <<"o","z">>,
     grams |-> Num(1701, 10)],
    [fdcId |-> 1, name |-> rice, description |-> Undefined, dataType |-> Undefined,
     nutrition |-> Undefined, quantity |-> Num(2, 1), unit |-> <<"c","u","p">>,
     grams |-> Num(480, 1)],
    [fdcId |-> 2, name |-> chicken, description |-> Undefined, dataType |-> Undefined,
     nutrition |-> ItemNutrition, quantity |-> One, unit |-> <<"o","z">>,
     grams |-> Undefined],
    [fdcId |-> 0, name |-> broccoli, description |-> Undefined,
     dataType |-> Undefined, nutrition |-> ItemNutrition, quantity |-> One,
     unit |-> <<"c","u","p">>, grams |-> Num(240, 1)] }

MealBodies ==
  {[imageUrl |-> u, calories |-> c, protein |-> Num(20, 1), carbs |-> Num(50, 1),
    fat |-> f, foodItems |-> items] :
     u \in {Undefined, <<"i","m","g">>}, c \in {Undefined, Num(500, 1)},
     f \in {Undefined, Num(20, 1)}, items \in SeqsUpTo(RequestFoodItems, MaxFoodItems)}

\* a cached FoodItem row of catalog entry fdcId
CachedFoodItem(fdcId) ==
  [id |-> fdcId, fdcId |-> fdcId, description |-> <<"f","o","o","d">>,
   dataType |-> <<"F","o","u","n","d","a","t","i","o","n">>,
   calories |-> Num(130, 1), protein |-> Num(3, 1), carbs |-> Num(28, 1),
   fat |-> Zero, fiber |-> Undefined, sugar |-> Zero, sodium |-> One]

\* the tables before the request: no meal, any set of cached food items
InitialTables ==
  {[Meal |-> {}, FoodItem |-> {CachedFoodItem(id) : id \in cached}, MealFoodItem |-> {}] :
     cached \in SUBSET FdcIds}

InitMeals ==
  /\ target \in EmitTargets
  /\ op = "none" /\ args = <<>> /\ pc = "none" /\ ret = <<>>
  /\ NoRun
  /\ tables \in InitialTables
  /\ request \in {[body |-> b, tables |-> tables] : b \in MealBodies}
  /\ handlerPc = "request"
  /\ tasks = <<>>
  /\ tx = NoTransaction
  /\ reply = <<>>

\* typeof x !== 'number'
NotANumber(x) == x = Undefined

\* lines 63-78: the row of tx.meal.create
MealRow(body) ==
  [id |-> 1, imageUrl |-> body.imageUrl, calories |-> body.calories,
   protein |-> body.protein, carbs |-> body.carbs, fat |-> body.fat]

\* lines 83-89: a callback of the map runs up to its first await
StartedTask(item) ==
  IF item.fdcId = 0
  THEN [pc |-> "done", foodItem |-> Null]
  ELSE [pc |-> "findUnique", foodItem |-> Null]

\* the transaction is rolled back: the tables keep the committed rows
rollbackKeepingWrites(committed, working) == working

\* lines 61 and 136: $transaction rolls back when its callback throws
rollback(committed, working) == committed

\* lines 31-89: the body is validated (400 on a missing field), the
\* transaction begins, the meal row is created and every callback of the map
\* runs up to its findUnique
PostMeal ==
  /\ handlerPc = "request"
  /\ LET body == request.body
     IN  IF body.imageUrl = Undefined
         THEN /\ reply' = [status |-> 400, success |-> FALSE]
              /\ handlerPc' = "responded"
              /\ UNCHANGED <<tx, tasks>>
         ELSE IF NotANumber(body.calories) \/ NotANumber(body.protein)
                   \/ NotANumber(body.carbs) \/ NotANumber(body.fat)
         THEN /\ reply' = [status |-> 400, success |-> FALSE]
              /\ handlerPc' = "responded"
              /\ UNCHANGED <<tx, tasks>>
         ELSE /\ tx' = [state |-> "open",
                        tables |-> [tables EXCEPT !.Meal = @ \cup {MealRow(body)}]]
              /\ tasks' = [i \in 1..Len(body.foodItems) |-> StartedTask(body.foodItems[i])]
              /\ handlerPc' = "transaction"
              /\ reply' = reply
  /\ UNCHANGED <<target, callVars, runVars, request, tables>>

\* lines 87-92 and 109: findUnique answers callback i, which goes on to
\* create the food item, to create the junction row, or returns
FindFoodItem(i) ==
  /\ handlerPc = "transaction" /\ tx.state = "open"
  /\ i \in DOMAIN tasks /\ tasks[i].pc = "findUnique"
  /\ LET item     == request.body.foodItems[i]
         foodItem == findUniqueFoodItem(tx.tables, item.fdcId)
     IN  tasks' = [tasks EXCEPT ![i] =
           IF IsNull(foodItem) /\ item.nutrition # Undefined
           THEN [pc |-> "foodItem.create", foodItem |-> Null]
           ELSE IF ~IsNull(foodItem)
           THEN [pc |-> "mealFoodItem.create", foodItem |-> foodItem]
           ELSE [pc |-> "done", foodItem |-> Null]]
  /\ UNCHANGED <<target, callVars, runVars, request, handlerPc, tables, tx, reply>>

\* lines 93-106: the data of tx.foodItem.create for an item
FoodItemData(item) ==
  [fdcId |-> item.fdcId,
   description |-> IF item.description # Undefined THEN item.description ELSE item.name,
   dataType |-> IF item.dataType # Undefined THEN item.dataType
                ELSE <<"U","n","k","n","o","w","n">>,
   calories |-> item.nutrition.calories, protein |-> item.nutrition.protein,
   carbs |-> item.nutrition.carbs, fat |-> item.nutrition.fat,
   fiber |-> item.nutrition.fiber, sugar |-> item.nutrition.sugar,
   sodium |-> item.nutrition.sodium]

\* lines 136-141: the callback of $transaction threw: the transaction is
\* rolled back and the handler answers 500
Rejected(i) ==
  /\ tasks' = [tasks EXCEPT ![i] = [pc |-> "rejected", foodItem |-> @.foodItem]]
  /\ tx' = [state |-> "rolledBack", tables |-> rollback(tables, tx.tables)]
  /\ tables' = rollback(tables, tx.tables)
  /\ reply' = [status |-> 500, success |-> FALSE]
  /\ handlerPc' = "responded"

\* lines 93-109: tx.foodItem.create of callback i succeeds or throws
CreateFoodItem(i) ==
  /\ handlerPc = "transaction" /\ tx.state = "open"
  /\ i \in DOMAIN tasks /\ tasks[i].pc = "foodItem.create"
  /\ LET created == foodItemCreate(tx.tables, FoodItemData(request.body.foodItems[i]))
     IN  IF created.ok
         THEN /\ tx' = [tx EXCEPT !.tables = created.tables]
              /\ tasks' = [tasks EXCEPT ![i] =
                             [pc |-> "mealFoodItem.create", foodItem |-> created.row]]
              /\ UNCHANGED <<tables, reply, handlerPc>>
         ELSE Rejected(i)
  /\ UNCHANGED <<target, callVars, runVars, request>>

\* lines 111-119: tx.mealFoodItem.create of callback i succeeds or throws
CreateMealFoodItem(i) ==
  /\ handlerPc = "transaction" /\ tx.state = "open"
  /\ i \in DOMAIN tasks /\ tasks[i].pc = "mealFoodItem.create"
  /\ LET item    == request.body.foodItems[i]
         created == mealFoodItemCreate(tx.tables,
                      [mealId |-> 1, foodItemId |-> tasks[i].foodItem.id,
                       quantity |-> item.quantity, unit |-> item.unit,
                       grams |-> item.grams])
     IN  IF created.ok
         THEN /\ tx' = [tx EXCEPT !.tables = created.tables]
              /\ tasks' = [tasks EXCEPT ![i] = [pc |-> "done", foodItem |-> @.foodItem]]
              /\ UNCHANGED <<tables, reply, handlerPc>>
         ELSE Rejected(i)
  /\ UNCHANGED <<target, callVars, runVars, request>>

\* a callback that is still running after the rollback: its next query is
\* refused because the transaction is closed
QueryAfterRollback(i) ==
  /\ tx.state = "rolledBack"
  /\ i \in DOMAIN tasks /\ tasks[i].pc \notin {"done", "rejected"}
  /\ tasks' = [tasks EXCEPT ![i] = [pc |-> "rejected", foodItem |-> @.foodItem]]
  /\ UNCHANGED <<target, callVars, runVars, request, handlerPc, tables, tx, reply>>

\* lines 122-138: every callback returned: the meal is read with its food
\* items, the transaction commits and the handler answers with the meal
CommitMeal ==
  /\ handlerPc = "transaction" /\ tx.state = "open"
  /\ \A i \in DOMAIN tasks : tasks[i].pc = "done"
  /\ tables' = tx.tables
  /\ tx' = [tx EXCEPT !.state = "committed"]
  /\ reply' = [status |-> 200, success |-> TRUE,
               data |-> [id |-> 1,
                         foodItems |-> {r \in tx.tables.MealFoodItem : r.mealId = 1}]]
  /\ handlerPc' = "responded"
  /\ UNCHANGED <<target, callVars, runVars, request, tasks>>

NextMeals ==
  \/ PostMeal
  \/ \E i \in 1..MaxFoodItems : FindFoodItem(i)
  \/ \E i \in 1..MaxFoodItems : CreateFoodItem(i)
  \/ \E i \in 1..MaxFoodItems : CreateMealFoodItem(i)
  \/ \E i \in 1..MaxFoodItems : QueryAfterRollback(i)
  \/ CommitMeal

SpecMeals == InitMeals /\ [][NextMeals]_vars


\* ------------------------------------------------------------------------
\* Properties of POST /api/meals
\* ------------------------------------------------------------------------
MealResponded == handlerPc = "responded" /\ request # <<>> /\ "body" \in DOMAIN request

\* the junction row of callback i is among the committed rows
JunctionPersisted(i) ==
  \E r \in tables.MealFoodItem :
    /\ r.mealId = 1
    /\ r.foodItemId = tasks[i].foodItem.id
    /\ r.grams = request.body.foodItems[i].grams

\* C25: POST /api/meals is atomic: the meal row, the FoodItem rows it creates
\* and all junction rows are persisted together or not at all; when an
\* insert of a food item fails no meal row of the request remains and the
\* response is an error.
C25_MealCreationIsAtomic ==
  ("body" \in DOMAIN request) =>
    /\ handlerPc # "responded" => tables = request.tables
    /\ (\E i \in DOMAIN tasks : tasks[i].pc = "rejected")
         => /\ tables = request.tables
            /\ tables.Meal = {}
            /\ handlerPc = "responded" /\ ~reply.success
    /\ (handlerPc = "responded" /\ ~reply.success) => tables = request.tables
    /\ (handlerPc = "responded" /\ reply.success)
         => /\ tables.Meal = {MealRow(request.body)}
            /\ request.tables.FoodItem \subseteq tables.FoodItem
            /\ \A i \in DOMAIN tasks :
                 /\ tasks[i].pc = "done"
                 /\ ~IsNull(tasks[i].foodItem)
                      => tasks[i].foodItem \in tables.FoodItem /\ JunctionPersisted(i)
            /\ \A r \in tables.MealFoodItem :
                 \E i \in DOMAIN tasks :
                   ~IsNull(tasks[i].foodItem) /\ r.foodItemId = tasks[i].foodItem.id

\* the first callback created its food item and its junction row, the insert
\* of the second failed: the response is an error and no row was persisted
C25_Witness ==
  /\ handlerPc = "responded"
  /\ "body" \in DOMAIN request
  /\ Len(tasks) = 2
  /\ tasks[1].pc = "done" /\ ~IsNull(tasks[1].foodItem)
  /\ tasks[1].foodItem \notin request.tables.FoodItem
  /\ tasks[2].pc = "rejected"
  /\ reply.status = 500
  /\ tables = request.tables

\* a meal with two food items, one of them newly created, was committed
C25_Committed ==
  /\ handlerPc = "responded"
  /\ "body" \in DOMAIN request
  /\ reply.success
  /\ Cardinality(tables.MealFoodItem) = 2
  /\ Cardinality(tables.FoodItem \ request.tables.FoodItem) = 1
  /\ Cardinality(tables.Meal) = 1

\* the body passes the validation and every food item of it names a catalog
\* entry and gives its nutrition and its serving
WellFormedBody(body) ==
  /\ body.imageUrl # Undefined
  /\ \A c \in {"calories", "protein", "carbs", "fat"} : body[c] # Undefined
  /\ \A i \in 1..Len(body.foodItems) :
       LET item == body.foodItems[i]
       IN  /\ item.fdcId # 0
           /\ item.nutrition # Undefined
           /\ item.quantity # Undefined /\ item.unit # Undefined /\ item.grams # Undefined

\* C28: POST /api/meals succeeds for every well-formed request whose
\* foodItems name the same fdcId more than once, under every interleaving
\* of the callbacks: no unique-constraint violation aborts the meal creation.
C28_DuplicateFdcIdSucceeds ==
  ( /\ handlerPc = "responded"
    /\ "body" \in DOMAIN request
    /\ WellFormedBody(request.body)
    /\ \E i, j \in 1..Len(request.body.foodItems) :
         i # j /\ request.body.foodItems[i].fdcId = request.body.foodItems[j].fdcId )
  => reply.success

\* well-formed requests whose food items name different fdcIds succeed
C28_DistinctFdcIdsSucceed ==
  ( /\ handlerPc = "responded"
    /\ "body" \in DOMAIN request
    /\ WellFormedBody(request.body)
    /\ \A i, j \in 1..Len(request.body.foodItems) :
         i # j => request.body.foodItems[i].fdcId # request.body.foodItems[j].fdcId )
  => reply.success


\* every well-formed request naming one fdcId twice ends in an error response
C28_DuplicateFdcIdFails ==
  ( /\ handlerPc = "responded"
    /\ "body" \in DOMAIN request
    /\ WellFormedBody(request.body)
    /\ \E i, j \in 1..Len(request.body.foodItems) :
         i # j /\ request.body.foodItems[i].fdcId = request.body.foodItems[j].fdcId )
  => (~reply.success /\ reply.status = 500)


\* ------------------------------------------------------------------------
\* The cache of the USDA client (getCachedFoodItem, searchAndCacheFoods)
\* ------------------------------------------------------------------------
MaxCalls == 2

\* the foods the USDA search returns for a query, as their fdcIds
USDASearchHits(query) ==
  IF query = rice THEN <<1, 2>>
  ELSE IF query = chicken THEN <<2>>
  ELSE <<>>

\* the data of prisma.foodItem.create for the details the USDA API returns
\* for fdcId (lines 154-174)
USDAFoodItemData(fdcId) ==
  [fdcId |-> fdcId, description |-> <<"f","o","o","d">>,
   dataType |-> <<"F","o","u","n","d","a","t","i","o","n">>,
   calories |-> Num(130, 1), protein |-> Num(3, 1), carbs |-> Num(28, 1),
   fat |-> Zero, fiber |-> Undefined, sugar |-> Zero, sodium |-> One]

\* the calls of a session: get-or-create of a catalog entry, or a search
CacheCalls ==
  {[fn |-> "getCachedFoodItem", fdcId |-> f, query |-> <<>>] : f \in FdcIds}
    \cup {[fn |-> "searchAndCacheFoods", fdcId |-> 0, query |-> q] :
            q \in {rice, chicken, broccoli}}

\* a call that has not been made yet
NotStarted ==
  [pc |-> "notStarted", after |-> {}, usdaRequests |-> 0, wrote |-> FALSE,
   error |-> "none", foodItem |-> Null, foods |-> <<>>, totalHits |-> 0]

InitCache ==
  /\ target \in EmitTargets
  /\ op = "none" /\ args = <<>> /\ pc = "none" /\ ret = <<>>
  /\ NoRun
  /\ tables \in InitialTables
  /\ request \in {[calls |-> c, tables |-> tables] :
                    c \in SeqsUpTo(CacheCalls, MaxCalls) \ {<<>>}}
  /\ handlerPc = "calls"
  /\ tasks = [i \in 1..Len(request.calls) |-> NotStarted]
  /\ tx = NoTransaction
  /\ reply = <<>>

\* call i has returned or thrown
Settled(i) == tasks[i].pc \in {"returned", "thrown"}

\* call i is made, at any time: it runs up to its first await (lines 146
\* and 190) and remembers the calls that were over when it began
CallStarts(i) ==
  /\ handlerPc = "calls"
  /\ i \in DOMAIN tasks /\ tasks[i].pc = "notStarted"
  /\ tasks' = [tasks EXCEPT ![i] =
       [@ EXCEPT !.pc = IF request.calls[i].fn = "getCachedFoodItem"
                        THEN "findUnique" ELSE "searchUSDAFoods",
                 !.after = {j \in DOMAIN tasks : Settled(j)}]]
  /\ UNCHANGED <<target, callVars, runVars, request, handlerPc, tables, tx, reply>>

\* getCachedFoodItem lines 146-152: findUnique answers; a cached row is
\* returned, otherwise the call goes on to ask the USDA API
GetCachedFindUnique(i) ==
  /\ handlerPc = "calls"
  /\ i \in DOMAIN tasks /\ tasks[i].pc = "findUnique"
  /\ LET cached == findUniqueFoodItem(tables, request.calls[i].fdcId)
     IN  tasks' = [tasks EXCEPT ![i] =
           IF ~IsNull(cached)
           THEN [@ EXCEPT !.pc = "returned", !.foodItem = cached]
           ELSE [@ EXCEPT !.pc = "getUSDAFoodDetails"]]
  /\ UNCHANGED <<target, callVars, runVars, request, handlerPc, tables, tx, reply>>

\* getCachedFoodItem lines 154-155 and 177-181: the USDA API answers the
\* request for the details, or the request fails and the call throws
GetUSDAFoodDetailsSettles(i) ==
  /\ handlerPc = "calls"
  /\ i \in DOMAIN tasks /\ tasks[i].pc = "getUSDAFoodDetails"
  /\ \E ok \in BOOLEAN :
       tasks' = [tasks EXCEPT ![i] =
         IF ok
         THEN [@ EXCEPT !.pc = "foodItem.create", !.usdaRequests = @ + 1]
         ELSE [@ EXCEPT !.pc = "thrown", !.usdaRequests = @ + 1, !.error = "usda"]]
  /\ UNCHANGED <<target, callVars, runVars, request, handlerPc, tables, tx, reply>>

\* getCachedFoodItem lines 157-181: the insert succeeds and the new row is
\* returned, or it is refused and the call throws
CreateCachedFoodItem(i) ==
  /\ handlerPc = "calls"
  /\ i \in DOMAIN tasks /\ tasks[i].pc = "foodItem.create"
  /\ LET created == foodItemCreate(tables, USDAFoodItemData(request.calls[i].fdcId))
     IN  IF created.ok
         THEN /\ tables' = created.tables
              /\ tasks' = [tasks EXCEPT ![i] =
                   [@ EXCEPT !.pc = "returned", !.wrote = TRUE, !.foodItem = created.row]]
         ELSE /\ tables' = tables
              /\ tasks' = [tasks EXCEPT ![i] = [@ EXCEPT !.pc = "thrown", !.error = "unique"]]
  /\ UNCHANGED <<target, callVars, runVars, request, handlerPc, tx, reply>>

\* searchAndCacheFoods lines 190-209 and 250-254: the USDA search answers;
\* without hits the call returns an empty list, otherwise one findUnique per
\* hit is issued; a failed search makes the call throw
SearchUSDAFoodsSettles(i) ==
  /\ handlerPc = "calls"
  /\ i \in DOMAIN tasks /\ tasks[i].pc = "searchUSDAFoods"
  /\ \E ok \in BOOLEAN :
       LET hits == USDASearchHits(request.calls[i].query)
       IN  tasks' = [tasks EXCEPT ![i] =
             IF ~ok
             THEN [@ EXCEPT !.pc = "thrown", !.usdaRequests = @ + 1, !.error = "usda"]
             ELSE IF Len(hits) = 0
             THEN [@ EXCEPT !.pc = "returned", !.usdaRequests = @ + 1]
             ELSE [@ EXCEPT !.pc = "lookups", !.usdaRequests = @ + 1,
                            !.totalHits = Len(hits),
                            !.foods = [k \in 1..Len(hits) |->
                                         [fdcId |-> hits[k], looked |-> FALSE,
                                          cached |-> FALSE]]]]
  /\ UNCHANGED <<target, callVars, runVars, request, handlerPc, tables, tx, reply>>

\* lines 211-232: the entry of the result for a hit whose findUnique
\* returned row
searchResultFood(food, row) ==
  [fdcId |-> food.fdcId, looked |-> TRUE, cached |-> ~IsNull(row)]

\* searchAndCacheFoods lines 205-248: findUnique of hit k answers and the
\* callback returns the food with its cached flag; after the last one the
\* call returns
SearchLookupSettles(i, k) ==
  /\ handlerPc = "calls"
  /\ i \in DOMAIN tasks /\ tasks[i].pc = "lookups"
  /\ k \in DOMAIN tasks[i].foods /\ ~tasks[i].foods[k].looked
  /\ LET food  == tasks[i].foods[k]
         foods == [tasks[i].foods EXCEPT ![k] =
                     searchResultFood(food, findUniqueFoodItem(tables, food.fdcId))]
     IN  tasks' = [tasks EXCEPT ![i] =
           [@ EXCEPT !.foods = foods,
                     !.pc = IF \A m \in DOMAIN foods : foods[m].looked
                            THEN "returned" ELSE "lookups"]]
  /\ UNCHANGED <<target, callVars, runVars, request, handlerPc, tables, tx, reply>>

NextCache ==
  \/ \E i \in 1..MaxCalls : CallStarts(i)
  \/ \E i \in 1..MaxCalls : GetCachedFindUnique(i)
  \/ \E i \in 1..MaxCalls : GetUSDAFoodDetailsSettles(i)
  \/ \E i \in 1..MaxCalls : CreateCachedFoodItem(i)
  \/ \E i \in 1..MaxCalls : SearchUSDAFoodsSettles(i)
  \/ \E i \in 1..MaxCalls :
       i \in DOMAIN tasks /\ \E k \in DOMAIN tasks[i].foods : SearchLookupSettles(i, k)

SpecCache == InitCache /\ [][NextCache]_vars


\* ------------------------------------------------------------------------
\* Properties of the cache
\* ------------------------------------------------------------------------
IsSearch(i) == "calls" \in DOMAIN request /\ request.calls[i].fn = "searchAndCacheFoods"
IsGetCached(i) == "calls" \in DOMAIN request /\ request.calls[i].fn = "getCachedFoodItem"

\* search j began after search i of the same query had returned
LaterIdenticalSearch(i, j) ==
  /\ IsSearch(i) /\ IsSearch(j)
  /\ request.calls[i].query = request.calls[j].query
  /\ tasks[i].pc = "returned" /\ tasks[j].pc = "returned"
  /\ i \in tasks[j].after

\* C23: the USDA client is a read-through cache: after a search returned a
\* food with cached = false, a later identical search returns that food with
\* cached = true.
C23_SecondSearchIsCached ==
  ("calls" \in DOMAIN request) =>
    \A i, j \in DOMAIN tasks :
      LaterIdenticalSearch(i, j) =>
        \A k \in DOMAIN tasks[i].foods :
          ~tasks[i].foods[k].cached =>
            \E m \in DOMAIN tasks[j].foods :
              /\ tasks[j].foods[m].fdcId = tasks[i].foods[k].fdcId
              /\ tasks[j].foods[m].cached

\* a search makes one USDA request and never writes a row: the FoodItem
\* table changes only by the insert of getCachedFoodItem
C23_SearchNeverWrites ==
  ("calls" \in DOMAIN request) =>
    /\ \A i \in DOMAIN tasks : IsSearch(i) => ~tasks[i].wrote /\ tasks[i].usdaRequests <= 1
    /\ (\A i \in DOMAIN tasks : IsSearch(i)) => tables = request.tables

\* a search that found no row for a food is followed by an identical search
\* and no get-or-create: the second search reports the food uncached again
C23_SecondSearchUncached ==
  ("calls" \in DOMAIN request) =>
    \A i, j \in DOMAIN tasks :
      (LaterIdenticalSearch(i, j) /\ \A c \in DOMAIN tasks : IsSearch(c)) =>
        tasks[j].foods = tasks[i].foods

\* calls i and j are get-or-create calls of the same catalog entry that
\* overlap: neither began after the other was over
ConcurrentGetCached(i, j) ==
  /\ i # j /\ IsGetCached(i) /\ IsGetCached(j)
  /\ request.calls[i].fdcId = request.calls[j].fdcId
  /\ Settled(i) /\ Settled(j)
  /\ i \notin tasks[j].after /\ j \notin tasks[i].after

\* C29: getCachedFoodItem is get-or-create: a call for an fdcId with a row
\* returns that row without a USDA request and without a write; a call for
\* an fdcId without a row that the USDA API answers creates exactly one row;
\* two concurrent calls for the same uncached fdcId both return the food
\* item and leave exactly one row.
C29_GetOrCreate ==
  ("calls" \in DOMAIN request) =>
    /\ \A i \in DOMAIN tasks :
         (IsGetCached(i) /\ Settled(i) /\ tasks[i].error # "usda") =>
           /\ tasks[i].pc = "returned"
           /\ tasks[i].foodItem \in tables.FoodItem
           /\ tasks[i].foodItem.fdcId = request.calls[i].fdcId
    /\ \A i \in DOMAIN tasks :
         (IsGetCached(i) /\ Settled(i)
            /\ \E r \in request.tables.FoodItem : r.fdcId = request.calls[i].fdcId) =>
           ~tasks[i].wrote /\ tasks[i].usdaRequests = 0
    /\ \A f \in FdcIds : Cardinality({r \in tables.FoodItem : r.fdcId = f}) <= 1

\* the parts of C29 that hold: a row that exists is returned without a USDA
\* request or a write, the table never holds two rows of one fdcId, and a
\* call that returns returns the row of its fdcId
C29_ExistingRowAndSingleRow ==
  ("calls" \in DOMAIN request) =>
    /\ \A i \in DOMAIN tasks :
         (IsGetCached(i) /\ tasks[i].pc = "returned") =>
           /\ tasks[i].foodItem \in tables.FoodItem
           /\ tasks[i].foodItem.fdcId = request.calls[i].fdcId
    /\ \A i \in DOMAIN tasks :
         (IsGetCached(i) /\ Settled(i)
            /\ \E r \in request.tables.FoodItem : r.fdcId = request.calls[i].fdcId) =>
           ~tasks[i].wrote /\ tasks[i].usdaRequests = 0
    /\ \A f \in FdcIds : Cardinality({r \in tables.FoodItem : r.fdcId = f}) <= 1

\* a get-or-create call throws on the unique index only when a concurrent
\* call of the same fdcId created the row
C29_ThrowsOnlyInTheRace ==
  ("calls" \in DOMAIN request) =>
    \A i \in DOMAIN tasks :
      (IsGetCached(i) /\ tasks[i].error = "unique") =>
        \E j \in DOMAIN tasks : ConcurrentGetCached(i, j) /\ tasks[j].wrote


\* ------------------------------------------------------------------------
\* analyzeMealImage (claude-vision-client.ts) and POST /api/meals/analyze
\* ------------------------------------------------------------------------
MaxRawFoods == 2

\* a field of the parsed JSON: a string, a number, or missing
JsonString(s) == [type |-> "string", str |-> s, num |-> Zero]

JsonNumber(n) == [type |-> "number", str |-> <<>>, num |-> n]

JsonMissing == [type |-> "undefined", str |-> <<>>, num |-> Zero]

\* Math.min for numbers
MathMin(a, b) == IF IsNaN(a) \/ IsNaN(b) THEN NaN ELSE IF Gt(a, b) THEN b ELSE a

\* lines 201-211: the filter of the parsed foods
IsValidFood(food) ==
  /\ food.name.type = "string" /\ food.name.str # <<>>
  /\ food.quantity.type = "number" /\ Gt(food.quantity.num, Zero)
  /\ food.unit.type = "string"
  /\ food.confidence.type = "number"
  /\ Ge(food.confidence.num, Zero) /\ Ge(One, food.confidence.num)

\* lines 213-218: the detected food made of a parsed food
ValidatedFood(food) ==
  [name |-> trim(food.name.str), quantity |-> food.quantity.num,
   unit |-> trim(food.unit.str),
   confidence |-> MathMax(Zero, MathMin(One, food.confidence.num))]

\* lines 150-234 after the image was fetched: apiResponse is what the call of
\* the Claude API and JSON.parse give
analyzeMealImage(apiResponse) ==
  IF apiResponse.kind = "error" THEN [kind |-> "thrown"]
  ELSE IF apiResponse.kind = "noFoodsArray" THEN [kind |-> "thrown"]
  ELSE LET validatedFoods == SelectSeq(apiResponse.foods, IsValidFood)
       IN  IF Len(validatedFoods) = 0 THEN [kind |-> "thrown"]
           ELSE [kind |-> "returned",
                 value |-> [foods |-> [i \in 1..Len(validatedFoods) |->
                                         ValidatedFood(validatedFoods[i])],
                            confidence |-> OrElse(apiResponse.overall_confidence, Num(1, 2))]]

\* foods of the parsed JSON: two valid ones, a name of white space only, and
\* foods with an empty name, a zero quantity, a confidence above 1, a
\* quantity given as a string, and no unit
RawFoods ==
  { [name |-> JsonString(rice), quantity |-> JsonNumber(One),
     unit |-> JsonString(<<"c","u","p">>), confidence |-> JsonNumber(Num(9, 10))],
    [name |-> JsonString(<<" ">> \o chicken), quantity |-> JsonNumber(Num(6, 1)),
     unit |-> JsonString(<<"o","z"," ">>), confidence |-> JsonNumber(One)],
    [name |-> JsonString(<<" ">>), quantity |-> JsonNumber(One),
     unit |-> JsonString(<<"c","u","p">>), confidence |-> JsonNumber(Num(1, 2))],
    [name |-> JsonString(<<>>), quantity |-> JsonNumber(One),
     unit |-> JsonString(<<"c","u","p">>), confidence |-> JsonNumber(Num(1, 2))],
    [name |-> JsonString(broccoli), quantity |-> JsonNumber(Zero),
     unit |-> JsonString(<<"c","u","p">>), confidence |-> JsonNumber(Num(1, 2))],
    [name |-> JsonString(broccoli), quantity |-> JsonNumber(One),
     unit |-> JsonString(<<"c","u","p">>), confidence |-> JsonNumber(Num(3, 2))],
    [name |-> JsonString(broccoli), quantity |-> JsonString(<<"2">>),
     unit |-> JsonString(<<"c","u","p">>), confidence |-> JsonNumber(Num(1, 2))],
    [name |-> JsonString(broccoli), quantity |-> JsonNumber(One),
     unit |-> JsonMissing, confidence |-> JsonNumber(Num(1, 2))] }

\* what the Claude API call and JSON.parse give: an error, an object without
\* a foods array, or an object with foods
ClaudeResponses ==
  {[kind |-> k, foods |-> <<>>, overall_confidence |-> Undefined] :
     k \in {"error", "noFoodsArray"}}
    \cup {[kind |-> "foods", foods |-> fs, overall_confidence |-> c] :
            fs \in SeqsUpTo(RawFoods, MaxRawFoods), c \in {Undefined, Num(4, 5)}}

\* the form of the request: an image file (valid or not), an image URL, neither
AnalyzeRequests ==
  {[image |-> img, response |-> r] :
     img \in {"file", "invalidFile", "url", "none"}, r \in ClaudeResponses}

InitAnalyze ==
  /\ target \in EmitTargets
  /\ op = "none" /\ args = <<>> /\ pc = "none" /\ ret = <<>>
  /\ NoRun
  /\ tables = EmptyTables
  /\ request \in AnalyzeRequests
  /\ handlerPc = "request"
  /\ tasks = <<>>
  /\ tx = NoTransaction
  /\ reply = <<>>

\* part_006 lines 28-59: the form is read; without an image, or with an
\* invalid file, the handler answers 400, otherwise analyzeMealImage is called
AnalyzeRequest ==
  /\ handlerPc = "request"
  /\ "image" \in DOMAIN request
  /\ IF request.image \in {"none", "invalidFile"}
     THEN /\ reply' = [status |-> 400, success |-> FALSE]
          /\ handlerPc' = "responded"
     ELSE /\ reply' = reply
          /\ handlerPc' = "analyzeMealImage"
  /\ UNCHANGED <<target, callVars, runVars, request, tasks, tables, tx>>

\* part_006 lines 90-99: the per-100g profile passed to
\* calculateNutritionForServing
UsdaProfile(usdaFood) ==
  [calories |-> usdaFood.nutrition.calories, protein |-> usdaFood.nutrition.protein,
   carbs |-> usdaFood.nutrition.carbs, fat |-> usdaFood.nutrition.fat,
   fiber |-> OrElse(usdaFood.nutrition.fiber, Zero),
   sugar |-> OrElse(usdaFood.nutrition.sugar, Zero),
   sodium |-> OrElse(usdaFood.nutrition.sodium, Zero)]

\* part_006 lines 116-124 and 135-143: the estimate returned without a match
EstimatedNutrition ==
  [calories |-> Num(100, 1), protein |-> Num(5, 1), carbs |-> Num(15, 1),
   fat |-> Num(3, 1), fiber |-> One, sugar |-> Num(2, 1), sodium |-> Num(100, 1)]

\* part_006 lines 82-145: what the callback of a detected food returns for
\* the outcome of its search
lookupFoodItem(food, outcome) ==
  LET grams == convertToGrams(food.quantity, food.unit)
  IN  IF outcome.kind = "found"
      THEN [name |-> food.name, quantity |-> food.quantity, unit |-> food.unit,
            confidence |-> food.confidence, grams |-> grams,
            fdcId |-> outcome.food.fdcId, description |-> outcome.food.description,
            dataType |-> outcome.food.dataType,
            nutrition |-> calculateNutritionForServing(UsdaProfile(outcome.food),
                            [quantity |-> food.quantity, unit |-> food.unit,
                             grams |-> grams])]
      ELSE [name |-> food.name, quantity |-> food.quantity, unit |-> food.unit,
            confidence |-> food.confidence, grams |-> grams,
            fdcId |-> 0, description |-> Undefined, dataType |-> Undefined,
            nutrition |-> EstimatedNutrition]

\* outcomes of searchAndCacheFoods(food.name, 1) in the route: it throws, it
\* has no hit, or its first hit is a catalog food
AnalyzeSearchOutcomes ==
  {[kind |-> "throws"], [kind |-> "empty"]} \cup
  {[kind |-> "found",
    food |-> [fdcId |-> f, description |-> <<"f","o","o","d">>,
              dataType |-> <<"F","o","u","n","d","a","t","i","o","n">>,
              nutrition |-> n]] : f \in {1}, n \in SearchNutrition}

\* part_006 lines 151-186: the totals of the food items, rounded
analyzeTotals(foodItems) ==
  LET Sum[k \in 0..Len(foodItems)] ==
        IF k = 0
        THEN [calories |-> Zero, protein |-> Zero, carbs |-> Zero, fat |-> Zero,
              fiber |-> Zero, sugar |-> Zero, sodium |-> Zero]
        ELSE LET n == foodItems[k].nutrition
             IN  [calories |-> Add(Sum[k - 1].calories, n.calories),
                  protein |-> Add(Sum[k - 1].protein, n.protein),
                  carbs |-> Add(Sum[k - 1].carbs, n.carbs),
                  fat |-> Add(Sum[k - 1].fat, n.fat),
                  fiber |-> Add(Sum[k - 1].fiber, OrElse(n.fiber, Zero)),
                  sugar |-> Add(Sum[k - 1].sugar, OrElse(n.sugar, Zero)),
                  sodium |-> Add(Sum[k - 1].sodium, OrElse(n.sodium, Zero))]
      totals == Sum[Len(foodItems)]
  IN  [calories |-> MathRound(totals.calories),
       protein |-> RoundToOneDecimal(totals.protein),
       carbs |-> RoundToOneDecimal(totals.carbs),
       fat |-> RoundToOneDecimal(totals.fat),
       fiber |-> RoundToOneDecimal(totals.fiber),
       sugar |-> RoundToOneDecimal(totals.sugar),
       sodium |-> RoundToOneDecimal(totals.sodium)]

\* part_006 lines 57-81 and 208-210: analyzeMealImage settles; when it threw
\* the handler answers 500; an analysis without foods is answered at once
\* with empty food items; otherwise one callback per detected food runs up
\* to its search
AnalyzeMealImageSettles ==
  /\ handlerPc = "analyzeMealImage"
  /\ LET called == analyzeMealImage(request.response)
     IN  IF called.kind = "thrown"
         THEN /\ reply' = [status |-> 500, success |-> FALSE]
              /\ handlerPc' = "responded"
              /\ tasks' = tasks
         ELSE IF Len(called.value.foods) = 0
         THEN /\ reply' = [status |-> 200, success |-> TRUE,
                           data |-> [aiAnalysis |-> called.value, foodItems |-> <<>>,
                                     totals |-> analyzeTotals(<<>>),
                                     message |-> "No foods detected"]]
              /\ handlerPc' = "responded"
              /\ tasks' = tasks
         ELSE /\ tasks' = [i \in 1..Len(called.value.foods) |->
                             [pc |-> "searchAndCacheFoods", food |-> called.value.foods[i],
                              outcome |-> "none", settledAfter |-> 0, item |-> Null]]
              /\ handlerPc' = "lookups"
              /\ reply' = reply
  /\ UNCHANGED <<target, callVars, runVars, request, tables, tx>>

\* part_006 lines 82-146: the search of callback i settles, in any order
\* among the callbacks, and the callback returns its food item
AnalyzeLookupSettles(i) ==
  /\ handlerPc = "lookups"
  /\ i \in DOMAIN tasks /\ tasks[i].pc = "searchAndCacheFoods"
  /\ \E outcome \in AnalyzeSearchOutcomes :
       tasks' = [tasks EXCEPT ![i] =
         [pc |-> "settled", food |-> @.food, outcome |-> outcome.kind,
          settledAfter |-> Cardinality({j \in DOMAIN tasks : tasks[j].pc = "settled"}),
          item |-> lookupFoodItem(@.food, outcome)]]
  /\ UNCHANGED <<target, callVars, runVars, request, handlerPc, tables, tx, reply>>

\* the mutant of promiseAll: the values in the order the callbacks settled
promiseAllInCompletionOrder(settled) ==
  [k \in 1..Len(settled) |->
     settled[CHOOSE i \in DOMAIN settled : settled[i].settledAfter = k - 1].item]

\* part_006 lines 80-81: Promise.all resolves with the values of the
\* callbacks in the order of the array
promiseAll(settled) == [i \in 1..Len(settled) |-> settled[i].item]

\* part_006 lines 151-207: every callback has returned: the totals are
\* computed and the handler answers with the analysis, the food items and
\* the totals
AnalyzeRespond ==
  /\ handlerPc = "lookups"
  /\ \A i \in DOMAIN tasks : tasks[i].pc = "settled"
  /\ LET foodItems == promiseAll(tasks)
     IN  reply' = [status |-> 200, success |-> TRUE,
                   data |-> [aiAnalysis |-> analyzeMealImage(request.response).value,
                             foodItems |-> foodItems,
                             totals |-> analyzeTotals(foodItems),
                             message |-> ""]]
  /\ handlerPc' = "responded"
  /\ UNCHANGED <<target, callVars, runVars, request, tasks, tables, tx>>

NextAnalyze ==
  \/ AnalyzeRequest
  \/ AnalyzeMealImageSettles
  \/ \E i \in 1..MaxRawFoods : AnalyzeLookupSettles(i)
  \/ AnalyzeRespond

SpecAnalyze == InitAnalyze /\ [][NextAnalyze]_vars


\* ------------------------------------------------------------------------
\* Properties of POST /api/meals/analyze and analyzeMealImage
\* ------------------------------------------------------------------------
\* the handler of an analyze request has answered after its lookups
AnalyzeAnswered ==
  /\ "response" \in DOMAIN request
  /\ handlerPc = "responded"
  /\ Len(tasks) > 0

\* the fixed estimate of the route, as stated
StatedPlaceholder ==
  [calories |-> Num(100, 1), protein |-> Num(5, 1), carbs |-> Num(15, 1),
   fat |-> Num(3, 1), fiber |-> Num(1, 1), sugar |-> Num(2, 1), sodium |-> Num(100, 1)]

\* the required fields of item are those of a catalog profile, scaled to the
\* grams of the item
ScaledFromCatalog(item) ==
  \E n \in SearchNutrition :
    \A f \in {"calories", "protein", "carbs", "fat"} :
      item.nutrition[f] = Mul(n[f], Div(item.grams, Num(100, 1)))

\* C24: in POST /api/meals/analyze the lookups of the detected foods are
\* independent: a lookup that throws or has no hit yields the fixed
\* placeholder (100, 5, 15, 3, 1, 2, 100) for that food only, and the
\* response holds exactly one food item per detected food, in detection
\* order, whatever the order in which the lookups complete.
C24_OneFoodItemPerDetectedFood ==
  /\ ("response" \in DOMAIN request /\ handlerPc = "lookups") => reply = <<>>
  /\ AnalyzeAnswered =>
       /\ reply.success
       /\ Len(reply.data.foodItems) = Len(reply.data.aiAnalysis.foods)
       /\ \A i \in DOMAIN tasks :
            LET item == reply.data.foodItems[i]
                food == reply.data.aiAnalysis.foods[i]
            IN  /\ tasks[i].food = food
                /\ item.name = food.name /\ item.quantity = food.quantity
                /\ item.unit = food.unit /\ item.confidence = food.confidence
                /\ tasks[i].outcome \in {"throws", "empty"}
                     => item.nutrition = StatedPlaceholder /\ item.fdcId = 0
                /\ tasks[i].outcome = "found"
                     => item.fdcId # 0 /\ ScaledFromCatalog(item)

\* the lookup of the first food threw after the lookup of the second had
\* found a match: the first item is the placeholder, the second the match
C24_Witness ==
  /\ AnalyzeAnswered
  /\ Len(tasks) = 2
  /\ tasks[1].settledAfter = 1 /\ tasks[1].outcome = "throws"
  /\ tasks[2].settledAfter = 0 /\ tasks[2].outcome = "found"
  /\ tasks[1].food.name # tasks[2].food.name
  /\ reply.data.foodItems[1].nutrition = StatedPlaceholder
  /\ reply.data.foodItems[2].fdcId = 1
  /\ reply.data.foodItems[2].name = tasks[2].food.name

\* C30: every analysis analyzeMealImage returns has a non-empty foods array
\* whose foods have a non-empty name, a quantity above 0 and a confidence in
\* [0, 1]; a response without valid foods makes the call fail, so the
\* 'no foods detected' success branch of the route is never taken.
C30_ReturnedFoodsAreValid ==
  ("response" \in DOMAIN request /\ handlerPc \in {"lookups", "responded"}) =>
    /\ (handlerPc = "responded" /\ reply.success) =>
         /\ reply.data.message # "No foods detected"
         /\ Len(reply.data.aiAnalysis.foods) > 0
    /\ \A i \in DOMAIN tasks :
         /\ tasks[i].food.name # <<>>
         /\ Gt(tasks[i].food.quantity, Zero)
         /\ Ge(tasks[i].food.confidence, Zero) /\ Ge(One, tasks[i].food.confidence)

\* the parts of C30 that hold: the array is non-empty, quantities are above
\* 0, confidences lie in [0, 1], and the branch for no foods is never taken
C30_AllButTheName ==
  ("response" \in DOMAIN request /\ handlerPc \in {"lookups", "responded"}) =>
    /\ (handlerPc = "responded" /\ reply.success) =>
         /\ reply.data.message # "No foods detected"
         /\ Len(reply.data.aiAnalysis.foods) > 0
    /\ (handlerPc = "lookups") => Len(tasks) > 0
    /\ \A i \in DOMAIN tasks :
         /\ Gt(tasks[i].food.quantity, Zero)
         /\ Ge(tasks[i].food.confidence, Zero) /\ Ge(One, tasks[i].food.confidence)

\* a returned food has an empty name only when the parsed name was white
\* space and nothing else
C30_EmptyNameOnlyFromWhiteSpace ==
  ("response" \in DOMAIN request) =>
    \A i \in DOMAIN tasks :
      tasks[i].food.name = <<>> =>
        \E k \in DOMAIN request.response.foods :
          LET raw == request.response.foods[k].name
          IN  raw.type = "string" /\ raw.str # <<>> /\ \A c \in DOMAIN raw.str : raw.str[c] \in WhiteSpace

=============================================================================
